---- MODULE Spec2Model ----
(***************************************************************************)
(* A model of the ping correlation engine of mdlayher/icmpx (package echo, *)
(* type connContext): concurrent Ping calls, the per-destination echo      *)
(* state, the registry of single-slot reply channels, the two mutexes, the *)
(* background reader and the engine's Close, over an unreliable network.   *)
(***************************************************************************)
EXTENDS Integers, Sequences, FiniteSets, TLC

(* ------------------------------ bounds -------------------------------- *)

\* Number of Ping calls made on the engine (each caller makes one call).
NumCalls == 2

\* The retry timer fires at most this often, all calls together.
MaxRetries == 2

\* Destinations that are pinged, identifiers rand.Read can produce (fewer
\* than 2^16, so that a collision is reachable) and the values of the six
\* remaining random payload bytes.
NumDsts == 2
NumIDs == 2
NumRests == 1

\* Echo replies that reach the socket without answering a request of the
\* engine (the filter admits every echo reply, whatever its identifier).
MaxStray == 1

\* Datagrams a transport's WriteTo hands to its socket.
MaxSent == 2

\* Calls of ReadFrom on one transport, each by a goroutine of its own.
NumReaders == 2

Dsts == 1..NumDsts
IDs == 1..NumIDs
Rests == 1..NumRests

Procs == 1..NumCalls

\* The background reader's identity as a holder of resMu.
Reader == 0

(* ------------------------------ values -------------------------------- *)

\* The absent map entry / nil *icmp.Echo.
NoEcho == [ID |-> 0, Seq |-> 0, Data |-> <<0, 0>>]

\* netip.Addr{} and the absence of a received message.
NoIP == 0
NoMsg == [IP |-> 0, ID |-> 0, Seq |-> 0, Data |-> <<0, 0>>]

\* The result of a Ping call that has not returned.
NoResult == [kind |-> "none", Ping |-> NoEcho, Pong |-> NoEcho, IP |-> NoIP]

ErrResult(k) == [kind |-> k, Ping |-> NoEcho, Pong |-> NoEcho, IP |-> NoIP]

\* A 16-bit field of an echo message on the wire.
Wire16(n) == n % (2 ^ 16)

VARIABLES
    pings,       \* cc.pings: destination -> icmp.Echo (Seq = 0: no entry)
    responses,   \* cc.responses: identifier -> channel (open: the key is
                 \* present; buf, of cap 1; by: the call that made it)
    pingsMu,     \* holder of cc.pingsMu, 0 when free
    resMu,       \* cc.resMu: readers holding it, writer waiting in Lock
    pc,          \* position of each Ping call
    dst,         \* destination of each Ping call
    ctxDone,     \* whether each call's context is cancelled
    echo,        \* the *icmp.Echo of the call's current attempt
    result,      \* what the call returned
    sentBy,      \* requests each call handed to WriteTo, in order
    retries,     \* what the OnRetry hook recorded for each call
    timeouts,    \* how often the retry timer fired in each call
    reqs,        \* echo requests on the wire
    dropped,     \* <<destination, seq>> of requests the peer dropped
    answered,    \* <<destination, seq>> of requests the peer answered
    recv,        \* the emulated host's flag: it has seen a request
    strays,      \* number of stray replies that arrived
    rpc,         \* position of readLoop
    rmsg,        \* the reply readLoop is dispatching
    rerr,        \* the error conn.ReadFrom returned to readLoop
    egErr,       \* the error readLoop returned to the errgroup
    engineDone,  \* whether the engine's context is cancelled
    closePc,     \* position of connContext.Close
    connClosed,  \* whether conn.Close was called
    connRet,     \* what conn.Close returned
    closeRet,    \* what Close returned
    v6Ret,       \* what ec.v6.Close() returned to Client.Close
    clientRet,   \* what Client.Close returned
    \* the packet filters
    f4,          \* IPv4Filter.data: the numbers of the bits set in the uint32
    f6,          \* IPv6Filter.data: the same for each of the 8 words
    fop,         \* the last operation on a filter and the data before it
    \* listen
    family,      \* the family of the transport that is being set up
    cfg,         \* IPv4Config / IPv6Config: Filter is "nil" or the filter's data
    msgs,        \* the address messages of the interface's RTM_GETADDR dump
    lpc,         \* position of listenIPv4 / listenIPv6
    bind,        \* what bindSockaddr returned: sa, ip, ok
    sock,        \* the raw socket: open, interface, filter, bound address
    calls,       \* the operations done on the socket, in order
    lret,        \* what listen returned
    \* address conversion
    convIP,      \* the netip.Addr given to toSockaddr
    convZone,    \* the zone given to toSockaddr
    convSa,      \* the unix.Sockaddr toSockaddr returned
    convOut,     \* the netip.Addr fromSockaddr returned
    rcvSa,       \* the peer's sockaddr Recvfrom gave to IPv6Conn.recvfromLocked
    rcvRet,      \* what IPv6Conn.recvfromLocked returned: ip, err
    \* WriteTo of a transport
    wr,          \* the last WriteTo: the transport's family, dst, the result
    sent,        \* the datagrams handed to the socket's Sendto, in order
    \* ReadFrom of an IPv4 transport
    mtu,         \* ifi.MTU, the length of the receive buffer c.b
    rbuf,        \* c.b: the bytes of the receive buffer
    rmu,         \* holder of c.mu, 0 when free
    rdpc,        \* position of each ReadFrom call
    rn,          \* n, the length Recvfrom returned to the call
    got,         \* the datagram the socket handed to the call
    taken,       \* how many datagrams the call took from the socket
    rdRet        \* what ReadFrom returned to the call

engineVars == <<pings, responses, pingsMu, resMu, pc, dst, ctxDone, echo, result,
          sentBy, retries, timeouts, reqs, dropped, answered, recv, strays,
          rpc, rmsg, rerr, egErr, engineDone, closePc, connClosed, connRet,
          closeRet,
          v6Ret, clientRet>>

filterVars == <<f4, f6, fop>>
listenVars == <<family, cfg, msgs, lpc, bind, sock, calls, lret>>
convVars == <<convIP, convZone, convSa, convOut, rcvSa, rcvRet>>
readVars == <<mtu, rbuf, rmu, rdpc, rn, got, taken, rdRet>>
ioVars == <<wr, sent, readVars>>
setupVars == <<filterVars, listenVars, convVars, ioVars>>

vars == <<engineVars, setupVars>>

callVars == <<pc, dst, ctxDone, echo, result, sentBy, retries, timeouts>>
netVars == <<reqs, dropped, answered, recv, strays>>
readerVars == <<rpc, rmsg, rerr, egErr>>
closeVars == <<engineDone, closePc, connClosed, connRet, closeRet>>
clientVars == <<v6Ret, clientRet>>

\* What the actions of the engine leave alone.
outerVars == <<clientVars, setupVars>>
mapVars == <<pings, responses>>
lockVars == <<pingsMu, resMu>>

(* newConnContext: empty maps, the reader started, nothing called yet. *)
InitEngine ==
    /\ pings = [d \in Dsts |-> NoEcho]
    /\ responses = [i \in IDs |-> [open |-> FALSE, buf |-> <<>>, by |-> 0]]
    /\ pingsMu = 0
    /\ resMu = [readers |-> {}, pending |-> 0]
    /\ pc = [p \in Procs |-> "idle"]
    /\ dst = [p \in Procs |-> NoIP]
    /\ ctxDone = [p \in Procs |-> FALSE]
    /\ echo = [p \in Procs |-> NoEcho]
    /\ result = [p \in Procs |-> NoResult]
    /\ sentBy = [p \in Procs |-> <<>>]
    /\ retries = [p \in Procs |-> <<>>]
    /\ timeouts = [p \in Procs |-> 0]
    /\ reqs = {}
    /\ dropped = {}
    /\ answered = {}
    /\ recv = FALSE
    /\ strays = 0
    /\ rpc = "recv"
    /\ rmsg = NoMsg
    /\ rerr = "none"
    /\ egErr = "none"
    /\ engineDone = FALSE
    /\ closePc = "idle"
    /\ connClosed = FALSE
    /\ connRet = "none"
    /\ closeRet = "none"
    /\ v6Ret = "none"
    /\ clientRet = "none"

(* ------------------------- pure parts of the code --------------------- *)

\* make(chan pingResponse, 1)
ChanCap == 1

\* ID: int(binary.BigEndian.Uint16(data[:2])): the first two random bytes.
IDOf(data) == Wire16(data[1])

\* echo, new host: icmp.Echo{ID: ..., Seq: 1, Data: data}.
NewEcho(data) == [ID |-> IDOf(data), Seq |-> 1, Data |-> data]

\* Mutants of NextEcho: the payload is generated again for every attempt;
\* the identifier is generated again; the increment is left out.
NextEchoNewData(e) ==
    [e EXCEPT !.Seq = e.Seq + 1, !.Data = <<e.Data[1], e.Data[2] + 1>>]
NextEchoNewID(e) == [e EXCEPT !.Seq = e.Seq + 1, !.ID = e.ID + 1]
NextEchoNoInc(e) == e

\* echo, known host: echo.Seq++ on the stored message, ID and Data kept.
NextEcho(e) == [e EXCEPT !.Seq = e.Seq + 1]

\* The request on the wire: WriteTo marshals the message for dst; the
\* identifier and the sequence number are 16-bit fields.
Request(d, e) ==
    [dst |-> d, ID |-> Wire16(e.ID), Seq |-> Wire16(e.Seq), Data |-> e.Data]

\* The emulated or real peer echoes the request's body back from its address.
Reply(m) == [IP |-> m.dst, ID |-> m.ID, Seq |-> m.Seq, Data |-> m.Data]

\* readLoop's pingResponse{Echo: echo, IP: ip} for a received message.
PingResponse(r) ==
    [Echo |-> [ID |-> r.ID, Seq |-> r.Seq, Data |-> r.Data], IP |-> r.IP]

\* doPing's &Response{Ping: echo, Pong: res.Echo, IP: res.IP}.
DoPingResponse(e, res) ==
    [kind |-> "response", Ping |-> e, Pong |-> res.Echo, IP |-> res.IP]

\* Mutant of PingSwitch: errRetry is treated like any other error.
PingSwitchNoRetry(err) == "return"

\* Mutant of PingSwitch: every error of doPing leads to another attempt.
PingSwitchRetryAll(err) == "continue"

\* Ping's switch on doPing's error: retry on errRetry, return anything else.
PingSwitch(err) == IF err = "errRetry" THEN "continue" ELSE "return"

\* Ping on errRetry: cc.hooks.OnRetry(echo), the test's hook appends.
OnRetry(log, req) == Append(log, req)

\* sync.RWMutex: RLock waits while a writer waits in Lock; Lock waits for
\* the readers to leave.
CanRLock == resMu.pending = 0
CanLock == resMu.readers = {}

\* A channel send proceeds when the buffer has room (no receiver is parked:
\* a parked receiver would have taken the buffered element).
CanSend(ch) == Len(ch.buf) < ChanCap

\* How often the retry timer has fired so far.
RECURSIVE SumTo(_, _)
SumTo(f, n) == IF n = 0 THEN 0 ELSE f[n] + SumTo(f, n - 1)
Retried == SumTo(timeouts, NumCalls)

\* Destinations that have echo state and identifiers that have a channel.
Known == {d \in Dsts : pings[d].Seq > 0}
Open == {i \in IDs : responses[i].open}

RUnlock(who) == [resMu EXCEPT !.readers = @ \ {who}]

(* ------------------------------ Ping ---------------------------------- *)

\* A caller invokes Ping(ctx, d) (callers are interchangeable: call p + 1
\* is made after call p was).
StartPing(p, d) ==
    /\ pc[p] = "idle"
    /\ IF p = 1 THEN TRUE ELSE pc[p - 1] # "idle"
    /\ d <= 1 + Cardinality({dst[q] : q \in {q \in Procs : pc[q] # "idle"}})
    /\ pc' = [pc EXCEPT ![p] = "echo"]
    /\ dst' = [dst EXCEPT ![p] = d]
    /\ UNCHANGED <<ctxDone, echo, result, sentBy, retries, timeouts>>
    /\ UNCHANGED <<mapVars, lockVars, netVars, readerVars, closeVars>>
    /\ UNCHANGED outerVars

\* The caller's context is cancelled (by the caller or by a deadline).
Cancel(p) ==
    /\ pc[p] \notin {"idle", "done"}
    /\ ~ctxDone[p]
    /\ ctxDone' = [ctxDone EXCEPT ![p] = TRUE]
    /\ UNCHANGED <<pc, dst, echo, result, sentBy, retries, timeouts>>
    /\ UNCHANGED <<mapVars, lockVars, netVars, readerVars, closeVars>>
    /\ UNCHANGED outerVars

\* echo(ip) for a destination that has state: under pingsMu, Seq++.
EchoKnown(p) ==
    /\ pc[p] = "echo"
    /\ pingsMu = 0
    /\ pings[dst[p]].Seq > 0
    /\ pings' = [pings EXCEPT ![dst[p]] = NextEcho(@)]
    /\ echo' = [echo EXCEPT ![p] = pings'[dst[p]]]
    /\ pc' = [pc EXCEPT ![p] = "write"]
    /\ UNCHANGED <<dst, ctxDone, result, sentBy, retries, timeouts>>
    /\ UNCHANGED <<responses, lockVars, netVars, readerVars, closeVars>>
    /\ UNCHANGED outerVars

\* echo(ip) for a new destination whose rand.Read fails.
EchoRandErr(p) ==
    /\ pc[p] = "echo"
    /\ pingsMu = 0
    /\ pings[dst[p]].Seq = 0
    /\ result' = [result EXCEPT ![p] = ErrResult("randErr")]
    /\ pc' = [pc EXCEPT ![p] = "done"]
    /\ UNCHANGED <<dst, ctxDone, echo, sentBy, retries, timeouts>>
    /\ UNCHANGED <<mapVars, lockVars, netVars, readerVars, closeVars>>
    /\ UNCHANGED outerVars

\* echo(ip) for a new destination, up to the call of resMu.Lock: pingsMu is
\* taken and stays held, the message is generated and stored.
EchoNew(p) ==
    /\ pc[p] = "echo"
    /\ pingsMu = 0
    /\ pings[dst[p]].Seq = 0
    /\ \E data \in {x \in IDs \X Rests : x[1] <= 1 + Cardinality(Open)} :
         /\ pings' = [pings EXCEPT ![dst[p]] = NewEcho(data)]
         /\ echo' = [echo EXCEPT ![p] = NewEcho(data)]
    /\ pingsMu' = p
    /\ resMu' = [resMu EXCEPT !.pending = p]
    /\ pc' = [pc EXCEPT ![p] = "wlock"]
    /\ UNCHANGED <<dst, ctxDone, result, sentBy, retries, timeouts>>
    /\ UNCHANGED <<responses, netVars, readerVars, closeVars>>
    /\ UNCHANGED outerVars

\* Mutant of Register: the channel is made anew for every new destination.
RegisterAlways(rs, id, p) ==
    [rs EXCEPT ![id] = [open |-> TRUE, buf |-> <<>>, by |-> p]]

\* if _, ok := cc.responses[echo.ID]; !ok { cc.responses[echo.ID] = make(...) }
Register(rs, id, p) ==
    IF rs[id].open THEN rs
    ELSE [rs EXCEPT ![id] = [open |-> TRUE, buf |-> <<>>, by |-> p]]

\* echo(ip), from resMu.Lock returning to the deferred unlocks: the channel
\* of the identifier is made unless the identifier already has one.
EchoRegister(p) ==
    /\ pc[p] = "wlock"
    /\ CanLock
    /\ responses' = Register(responses, echo[p].ID, p)
    /\ resMu' = [resMu EXCEPT !.pending = 0]
    /\ pingsMu' = 0
    /\ pc' = [pc EXCEPT ![p] = "write"]
    /\ UNCHANGED <<dst, ctxDone, echo, result, sentBy, retries, timeouts>>
    /\ UNCHANGED <<pings, netVars, readerVars, closeVars>>
    /\ UNCHANGED outerVars

\* Mutant of WriteTo: the transport sends although it is closed.
WriteToOnClosed(p) ==
    /\ pc[p] = "write"
    /\ reqs' = reqs \cup {Request(dst[p], echo[p])}
    /\ sentBy' = [sentBy EXCEPT ![p] = Append(@, echo[p])]
    /\ pc' = [pc EXCEPT ![p] = "rlock"]
    /\ UNCHANGED <<dst, ctxDone, echo, result, retries, timeouts>>
    /\ UNCHANGED <<dropped, answered, recv, strays>>
    /\ UNCHANGED <<mapVars, lockVars, readerVars, closeVars>>
    /\ UNCHANGED outerVars

\* doPing: conn.WriteTo succeeds and the request is on the wire.
WriteTo(p) ==
    /\ pc[p] = "write"
    /\ ~connClosed
    /\ reqs' = reqs \cup {Request(dst[p], echo[p])}
    /\ sentBy' = [sentBy EXCEPT ![p] = Append(@, echo[p])]
    /\ pc' = [pc EXCEPT ![p] = "rlock"]
    /\ UNCHANGED <<dst, ctxDone, echo, result, retries, timeouts>>
    /\ UNCHANGED <<dropped, answered, recv, strays>>
    /\ UNCHANGED <<mapVars, lockVars, readerVars, closeVars>>
    /\ UNCHANGED outerVars

\* doPing: conn.WriteTo fails (the context's error when ctx is done, a
\* transport error otherwise); Ping returns the error.
WriteToErr(p) ==
    /\ pc[p] = "write"
    /\ LET err == IF ctxDone[p] THEN "canceled" ELSE "sendErr" IN
         IF PingSwitch(err) = "return"
         THEN /\ result' = [result EXCEPT ![p] = ErrResult(err)]
              /\ pc' = [pc EXCEPT ![p] = "done"]
              /\ UNCHANGED retries
         ELSE /\ retries' = [retries EXCEPT ![p] = OnRetry(@, echo[p])]
              /\ pc' = [pc EXCEPT ![p] = "echo"]
              /\ UNCHANGED result
    /\ UNCHANGED <<dst, ctxDone, echo, sentBy, timeouts>>
    /\ UNCHANGED <<mapVars, lockVars, netVars, readerVars, closeVars>>
    /\ UNCHANGED outerVars

\* doPing: cc.resMu.RLock().
RLock(p) ==
    /\ pc[p] = "rlock"
    /\ CanRLock
    /\ resMu' = [resMu EXCEPT !.readers = @ \cup {p}]
    /\ pc' = [pc EXCEPT ![p] = "wait"]
    /\ UNCHANGED <<dst, ctxDone, echo, result, sentBy, retries, timeouts>>
    /\ UNCHANGED <<pingsMu, mapVars, netVars, readerVars, closeVars>>
    /\ UNCHANGED outerVars

\* doPing's select, case res := <-cc.responses[echo.ID].
Recv(p) ==
    /\ pc[p] = "wait"
    /\ responses[echo[p].ID].buf # <<>>
    /\ result' = [result EXCEPT
                    ![p] = DoPingResponse(echo[p], Head(responses[echo[p].ID].buf))]
    /\ responses' = [responses EXCEPT ![echo[p].ID].buf = Tail(@)]
    /\ resMu' = RUnlock(p)
    /\ pc' = [pc EXCEPT ![p] = "done"]
    /\ UNCHANGED <<dst, ctxDone, echo, sentBy, retries, timeouts>>
    /\ UNCHANGED <<pings, pingsMu, netVars, readerVars, closeVars>>
    /\ UNCHANGED outerVars

\* doPing's select, case <-tickC, and what Ping does with errRetry: the
\* hook and the next turn of the loop.
Tick(p) ==
    /\ pc[p] = "wait"
    /\ Retried < MaxRetries
    /\ timeouts' = [timeouts EXCEPT ![p] = @ + 1]
    /\ resMu' = RUnlock(p)
    /\ IF PingSwitch("errRetry") = "continue"
         THEN /\ retries' = [retries EXCEPT ![p] = OnRetry(@, echo[p])]
              /\ pc' = [pc EXCEPT ![p] = "echo"]
              /\ UNCHANGED result
         ELSE /\ result' = [result EXCEPT ![p] = ErrResult("errRetry")]
              /\ pc' = [pc EXCEPT ![p] = "done"]
              /\ UNCHANGED retries
    /\ UNCHANGED <<dst, ctxDone, echo, sentBy>>
    /\ UNCHANGED <<mapVars, pingsMu, netVars, readerVars, closeVars>>
    /\ UNCHANGED outerVars

\* Mutant of CtxDone: the return on cancellation leaves resMu read-locked.
CtxDoneKeepsRLock(p) ==
    /\ pc[p] = "wait"
    /\ ctxDone[p]
    /\ result' = [result EXCEPT ![p] = ErrResult("canceled")]
    /\ pc' = [pc EXCEPT ![p] = "done"]
    /\ UNCHANGED <<dst, ctxDone, echo, sentBy, retries, timeouts>>
    /\ UNCHANGED <<mapVars, lockVars, netVars, readerVars, closeVars>>
    /\ UNCHANGED outerVars

\* doPing's select, case <-ctx.Done().
CtxDone(p) ==
    /\ pc[p] = "wait"
    /\ ctxDone[p]
    /\ PingSwitch("canceled") = "return"
    /\ result' = [result EXCEPT ![p] = ErrResult("canceled")]
    /\ resMu' = RUnlock(p)
    /\ pc' = [pc EXCEPT ![p] = "done"]
    /\ UNCHANGED <<dst, ctxDone, echo, sentBy, retries, timeouts>>
    /\ UNCHANGED <<mapVars, pingsMu, netVars, readerVars, closeVars>>
    /\ UNCHANGED outerVars

(* ----------------------------- the network ---------------------------- *)

\* A request on the wire is answered when the reader receives its reply; a
\* request that stays on the wire for ever is a request, or a reply, that
\* was lost. Requests are answered in any order, at any time.

\* The emulated host of TestClientPingRetry takes a request from reqC while
\* its flag is unset: OnEcho sets the flag and drops the request.
HostDrop(m) ==
    /\ m \in reqs
    /\ ~recv
    /\ recv' = TRUE
    /\ reqs' = reqs \ {m}
    /\ dropped' = dropped \cup {<<m.dst, m.Seq>>}
    /\ UNCHANGED <<answered, strays>>
    /\ UNCHANGED <<callVars, mapVars, lockVars, readerVars, closeVars>>
    /\ UNCHANGED outerVars

\* The host that sends a stray reply.
OtherHost == NumDsts + 1

(* ----------------------------- readLoop ------------------------------- *)

\* conn.ReadFrom returns the peer's reply to request m.
ReadFrom(m) ==
    /\ rpc = "recv"
    /\ ~connClosed
    /\ m \in reqs
    /\ reqs' = reqs \ {m}
    /\ answered' = answered \cup {<<m.dst, m.Seq>>}
    /\ rmsg' = Reply(m)
    /\ rpc' = "rlock"
    /\ UNCHANGED <<rerr, egErr, dropped, recv, strays>>
    /\ UNCHANGED <<callVars, mapVars, lockVars, closeVars>>
    /\ UNCHANGED outerVars

\* conn.ReadFrom returns an echo reply of another host that answers another
\* program's request: any identifier.
ReadFromStray(i) ==
    /\ rpc = "recv"
    /\ ~connClosed
    /\ strays < MaxStray
    /\ strays' = strays + 1
    /\ rmsg' = [IP |-> OtherHost, ID |-> i, Seq |-> 1, Data |-> <<i, 0>>]
    /\ rpc' = "rlock"
    /\ UNCHANGED <<rerr, egErr, reqs, dropped, answered, recv>>
    /\ UNCHANGED <<callVars, mapVars, lockVars, closeVars>>
    /\ UNCHANGED outerVars

\* The errors conn.ReadFrom can return: a failure of the receive or of
\* the parse at any time, the context's error once the engine's context is
\* done.
ReadErrs == {"readErr"} \cup (IF engineDone THEN {"canceled"} ELSE {})

\* conn.ReadFrom returns an error.
ReadFromErr(e) ==
    /\ rpc = "recv"
    /\ rerr' = e
    /\ rpc' = "err"
    /\ UNCHANGED <<rmsg, egErr, callVars, mapVars, lockVars, netVars, closeVars>>
    /\ UNCHANGED outerVars

\* Mutant of ReadLoopErr: every error of ReadFrom ends the reader quietly.
ReadLoopErrNil(done, err) == "nil"

\* readLoop's result for an error of ReadFrom, given ctx.Err() != nil.
ReadLoopErr(done, err) == IF done THEN "nil" ELSE err

\* readLoop after the error: it returns nil when the engine's context is
\* done by now and the error otherwise.
ReadLoopReturn ==
    /\ rpc = "err"
    /\ egErr' = ReadLoopErr(engineDone, rerr)
    /\ rpc' = "done"
    /\ UNCHANGED <<rmsg, rerr, callVars, mapVars, lockVars, netVars, closeVars>>
    /\ UNCHANGED outerVars

\* cc.resMu.RLock() in readLoop.
ReaderRLock ==
    /\ rpc = "rlock"
    /\ CanRLock
    /\ resMu' = [resMu EXCEPT !.readers = @ \cup {Reader}]
    /\ rpc' = "send"
    /\ UNCHANGED <<rmsg, rerr, egErr, pingsMu, callVars, mapVars, netVars, closeVars>>
    /\ UNCHANGED outerVars

\* The identifier has a channel: pingC <- pingResponse{...}, then RUnlock.
ReaderDeliver ==
    /\ rpc = "send"
    /\ responses[rmsg.ID].open
    /\ CanSend(responses[rmsg.ID])
    /\ responses' = [responses EXCEPT ![rmsg.ID].buf = Append(@, PingResponse(rmsg))]
    /\ resMu' = RUnlock(Reader)
    /\ rmsg' = NoMsg
    /\ rpc' = "recv"
    /\ UNCHANGED <<rerr, egErr, pings, pingsMu, callVars, netVars, closeVars>>
    /\ UNCHANGED outerVars

\* The identifier has no channel: nothing is sent, then RUnlock.
ReaderDiscard ==
    /\ rpc = "send"
    /\ ~responses[rmsg.ID].open
    /\ resMu' = RUnlock(Reader)
    /\ rmsg' = NoMsg
    /\ rpc' = "recv"
    /\ UNCHANGED <<rerr, egErr, mapVars, pingsMu, callVars, netVars, closeVars>>
    /\ UNCHANGED outerVars

(* ------------------------------- Close -------------------------------- *)

\* Close: cc.cancel(), then cc.eg.Wait() begins.
CloseCancel ==
    /\ closePc = "idle"
    /\ engineDone' = TRUE
    /\ closePc' = "wait"
    /\ UNCHANGED <<connClosed, connRet, closeRet>>
    /\ UNCHANGED <<callVars, mapVars, lockVars, netVars, readerVars>>
    /\ UNCHANGED outerVars

\* What conn.Close() can return.
ConnErrs == {"nil", "closeErr"}

\* Mutant of CloseResult: the error of the reader is dropped.
CloseResultOfConn(waitErr, connErr) == connErr

\* Close's result: the error of eg.Wait() when there is one (conn.Close's
\* is then discarded), what conn.Close() returned otherwise.
CloseResult(waitErr, connErr) == IF waitErr # "nil" THEN waitErr ELSE connErr

\* Mutant of CloseConn: the socket is closed without eg.Wait().
CloseConnNoWait(connErr) ==
    /\ closePc = "wait"
    /\ connClosed' = TRUE
    /\ connRet' = connErr
    /\ closeRet' = CloseResult("nil", connErr)
    /\ closePc' = "done"
    /\ UNCHANGED engineDone
    /\ UNCHANGED <<callVars, mapVars, lockVars, netVars, readerVars>>
    /\ UNCHANGED outerVars

\* Close: eg.Wait() returned readLoop's error; conn.Close() is called on
\* either branch and Close returns.
CloseConn(connErr) ==
    /\ closePc = "wait"
    /\ rpc = "done"
    /\ connClosed' = TRUE
    /\ connRet' = connErr
    /\ closeRet' = CloseResult(egErr, connErr)
    /\ closePc' = "done"
    /\ UNCHANGED engineDone
    /\ UNCHANGED <<callVars, mapVars, lockVars, netVars, readerVars>>
    /\ UNCHANGED outerVars

(* ---------------------------- Client.Close ---------------------------- *)

\* Client.Close calls ec.v4.Close() (CloseCancel, CloseConn: the engine
\* modelled here is the client's IPv4 engine), then ec.v6.Close() on either
\* branch, and returns.

\* What the Close of the client's other engine can return.
CloseErrs == {"nil", "readErr", "closeErr"}

\* Mutant of ClientCloseResult: the result of the engine closed last.
ClientCloseResultLast(err4, err6) == err6

\* Client.Close's result: the IPv4 engine's error when there is one (the
\* IPv6 engine's is then discarded), the IPv6 engine's result otherwise.
ClientCloseResult(err4, err6) == IF err4 # "nil" THEN err4 ELSE err6

\* Client.Close after ec.v4.Close() returned: ec.v6.Close() and the return.
CloseV6(err6) ==
    /\ closePc = "done"
    /\ clientRet = "none"
    /\ v6Ret' = err6
    /\ clientRet' = ClientCloseResult(closeRet, err6)
    /\ UNCHANGED <<callVars, mapVars, lockVars, netVars, readerVars, closeVars>>
    /\ UNCHANGED setupVars

(* --------------------------- packet filters --------------------------- *)

\* The 8-bit type codes of ICMP messages, and the ones the operations are
\* tried with: echo reply and echo of ICMPv4, extended echo reply (43) of
\* ICMPv4, echo reply of ICMPv6.
TypeCodes == 0..255
FilterTypes == {0, 8, 43, 129}

\* The types ...AllowOnly is given: at most MaxTypes of them.
MaxTypes == 2
TypeLists == UNION {[1..n -> FilterTypes] : n \in 0..MaxTypes}

\* A uint32 is kept as the set of the numbers of its bits that are set;
\* 1<<32 - 1 has all of them.
AllBits == 0..31
Words == 0..7

\* uint32(typ) & 31 and typ >> 5.
Bit(typ) == typ % 32
Word(typ) == typ \div 32

\* IPv4Filter: SetAll, Accept (data &^= 1 << bit), Block (data |= 1 << bit)
\* and WillBlock (data & (1 << bit) != 0) on the single word.
IPv4SetAll(block) == IF block THEN AllBits ELSE {}
IPv4Accept(data, typ) == data \ {Bit(typ)}
IPv4Block(data, typ) == data \cup {Bit(typ)}
IPv4WillBlock(data, typ) == Bit(typ) \in data

\* IPv4AllowOnly: f.SetAll(true), then f.Accept(t) for each t of types.
RECURSIVE IPv4AcceptEach(_, _)
IPv4AcceptEach(data, types) ==
    IF types = <<>> THEN data
    ELSE IPv4AcceptEach(IPv4Accept(data, Head(types)), Tail(types))
IPv4AllowOnly(types) == IPv4AcceptEach(IPv4SetAll(TRUE), types)

\* IPv6Filter: the same on the word typ >> 5 of the 8 words.
IPv6SetAll(block) == [w \in Words |-> IF block THEN AllBits ELSE {}]
IPv6Accept(data, typ) == [data EXCEPT ![Word(typ)] = @ \ {Bit(typ)}]
IPv6Block(data, typ) == [data EXCEPT ![Word(typ)] = @ \cup {Bit(typ)}]
IPv6WillBlock(data, typ) == Bit(typ) \in data[Word(typ)]

RECURSIVE IPv6AcceptEach(_, _)
IPv6AcceptEach(data, types) ==
    IF types = <<>> THEN data
    ELSE IPv6AcceptEach(IPv6Accept(data, Head(types)), Tail(types))
IPv6AllowOnly(types) == IPv6AcceptEach(IPv6SetAll(TRUE), types)

\* The record of an operation: its name, its argument (a type or a list of
\* types) and the filter's data before it.
FilterOp(op, typ, types, was) ==
    [op |-> op, typ |-> typ, types |-> types, was |-> was]

\* var f IPv4Filter, var f IPv6Filter: all bits clear, nothing done.
ZeroFilters ==
    /\ f4 = IPv4SetAll(FALSE)
    /\ f6 = IPv6SetAll(FALSE)
    /\ fop = FilterOp("none", 0, <<>>, {})

\* f = IPv4AllowOnly(types...)
AllowOnly4(types) ==
    /\ f4' = IPv4AllowOnly(types)
    /\ fop' = FilterOp("IPv4AllowOnly", 0, types, f4)
    /\ UNCHANGED <<f6, engineVars, listenVars, convVars, ioVars>>

\* f.Accept(typ), f.Block(typ) and f.SetAll(block) on an IPv4Filter.
Accept4(typ) ==
    /\ f4' = IPv4Accept(f4, typ)
    /\ fop' = FilterOp("IPv4Accept", typ, <<>>, f4)
    /\ UNCHANGED <<f6, engineVars, listenVars, convVars, ioVars>>

Block4(typ) ==
    /\ f4' = IPv4Block(f4, typ)
    /\ fop' = FilterOp("IPv4Block", typ, <<>>, f4)
    /\ UNCHANGED <<f6, engineVars, listenVars, convVars, ioVars>>

SetAll4(block) ==
    /\ f4' = IPv4SetAll(block)
    /\ fop' = FilterOp("IPv4SetAll", 0, <<>>, f4)
    /\ UNCHANGED <<f6, engineVars, listenVars, convVars, ioVars>>

\* f = IPv6AllowOnly(types...)
AllowOnly6(types) ==
    /\ f6' = IPv6AllowOnly(types)
    /\ fop' = FilterOp("IPv6AllowOnly", 0, types, f6)
    /\ UNCHANGED <<f4, engineVars, listenVars, convVars, ioVars>>

\* f.Accept(typ), f.Block(typ) and f.SetAll(block) on an IPv6Filter.
Accept6(typ) ==
    /\ f6' = IPv6Accept(f6, typ)
    /\ fop' = FilterOp("IPv6Accept", typ, <<>>, f6)
    /\ UNCHANGED <<f4, engineVars, listenVars, convVars, ioVars>>

Block6(typ) ==
    /\ f6' = IPv6Block(f6, typ)
    /\ fop' = FilterOp("IPv6Block", typ, <<>>, f6)
    /\ UNCHANGED <<f4, engineVars, listenVars, convVars, ioVars>>

SetAll6(block) ==
    /\ f6' = IPv6SetAll(block)
    /\ fop' = FilterOp("IPv6SetAll", 0, <<>>, f6)
    /\ UNCHANGED <<f4, engineVars, listenVars, convVars, ioVars>>

(* ----------------------------- addresses ------------------------------ *)

\* A netip.Addr is kept as its bytes (4 for an IPv4 address, 16 for an IPv6
\* address, none for the zero Addr) and its zone; a unix.Sockaddr as its
\* type and fields.
NoAddr == [b |-> <<>>, z |-> ""]
NoSa == [t |-> "nil"]

\* a.b.c.d, the IPv6 address h1:h2::h8 and ::ffff:a.b.c.d, without zone.
V4(a, b, c, d) == [b |-> <<a, b, c, d>>, z |-> ""]
V6(h1, h2, h8) ==
    [b |-> <<h1 \div 256, h1 % 256, h2 \div 256, h2 % 256, 0, 0, 0, 0,
             0, 0, 0, 0, 0, 0, h8 \div 256, h8 % 256>>,
     z |-> ""]
Mapped(a, b, c, d) ==
    [b |-> <<0, 0, 0, 0, 0, 0, 0, 0, 0, 0, 255, 255, a, b, c, d>>, z |-> ""]

\* netip: IsValid, Is4, Is6, Is4In6, Unmap, WithZone.
IsValid(ip) == ip.b # <<>>
Is4(ip) == Len(ip.b) = 4
Is6(ip) == Len(ip.b) = 16
Is4In6(ip) ==
    /\ Is6(ip)
    /\ \A i \in 1..10 : ip.b[i] = 0
    /\ ip.b[11] = 255 /\ ip.b[12] = 255
Unmap(ip) == IF Is4In6(ip) THEN [b |-> SubSeq(ip.b, 13, 16), z |-> ""] ELSE ip
WithZone(ip, zone) == IF Is6(ip) THEN [ip EXCEPT !.z = zone] ELSE ip

\* netip.AddrFromSlice: a slice of 4 or of 16 bytes is an address.
AddrFromSlice(slice) ==
    IF Len(slice) \in {4, 16} THEN [ip |-> [b |-> slice, z |-> ""], ok |-> TRUE]
    ELSE [ip |-> NoAddr, ok |-> FALSE]

\* netip's classes of addresses, on the unmapped address: loopback,
\* multicast, link-local unicast (169.254/16, fe80::/10), link-local
\* multicast (224.0.0/24, ff02::/16 with any flags), private (10/8,
\* 172.16/12, 192.168/16, fc00::/7), global unicast.
IsLoopback(ip) ==
    LET u == Unmap(ip) IN
    \/ Is4(u) /\ u.b[1] = 127
    \/ Is6(u) /\ u.b[16] = 1 /\ \A i \in 1..15 : u.b[i] = 0
IsMulticast(ip) ==
    LET u == Unmap(ip) IN
    \/ Is4(u) /\ u.b[1] \in 224..239
    \/ Is6(u) /\ u.b[1] = 255
IsLinkLocalUnicast(ip) ==
    LET u == Unmap(ip) IN
    \/ Is4(u) /\ u.b[1] = 169 /\ u.b[2] = 254
    \/ Is6(u) /\ u.b[1] = 254 /\ u.b[2] \in 128..191
IsLinkLocalMulticast(ip) ==
    LET u == Unmap(ip) IN
    \/ Is4(u) /\ u.b[1] = 224 /\ u.b[2] = 0 /\ u.b[3] = 0
    \/ Is6(u) /\ u.b[1] = 255 /\ u.b[2] % 16 = 2
IsPrivate(ip) ==
    LET u == Unmap(ip) IN
    \/ Is4(u) /\ \/ u.b[1] = 10
                 \/ u.b[1] = 172 /\ u.b[2] \in 16..31
                 \/ u.b[1] = 192 /\ u.b[2] = 168
    \/ Is6(u) /\ u.b[1] \in {252, 253}
IsUnspecified(ip) == IsValid(ip) /\ \A i \in 1..Len(ip.b) : ip.b[i] = 0
IsGlobalUnicast(ip) ==
    LET u == Unmap(ip) IN
    /\ IsValid(u)
    /\ ~(Is4(u) /\ \A i \in 1..4 : u.b[i] = 255)
    /\ ~IsUnspecified(u)
    /\ ~IsLoopback(u) /\ ~IsMulticast(u) /\ ~IsLinkLocalUnicast(u)

\* Mutant of toSockaddr: the zone is attached to every IPv6 address.
toSockaddrAnyZone(ip, zone) ==
    IF Is4(ip) THEN [t |-> "SockaddrInet4", Addr |-> ip.b]
    ELSE [t |-> "SockaddrInet6", Addr |-> ip.b, ZoneId |-> zone]

\* toSockaddr: SockaddrInet4{Addr: ip.As4()} for an IPv4 address; for an
\* IPv6 address SockaddrInet6{Addr: ip.As16()}, with ZoneId set to the zone
\* when the address is link-local unicast or multicast; a panic otherwise.
toSockaddr(ip, zone) ==
    IF Is4(ip) THEN [t |-> "SockaddrInet4", Addr |-> ip.b]
    ELSE IF Is6(ip) THEN
        [t |-> "SockaddrInet6", Addr |-> ip.b,
         ZoneId |-> IF IsLinkLocalUnicast(ip) \/ IsLinkLocalMulticast(ip)
                    THEN zone ELSE 0]
    ELSE [t |-> "panic"]

\* strconv.Itoa
Itoa(n) == ToString(n)

\* fromSockaddr: netip.AddrFrom4(sa.Addr), or netip.AddrFrom16(sa.Addr)
\* with the zone strconv.Itoa(int(sa.ZoneId)) when ZoneId > 0.
fromSockaddr(sa) ==
    IF sa.t = "SockaddrInet4" THEN [b |-> sa.Addr, z |-> ""]
    ELSE IF sa.t = "SockaddrInet6" THEN
        IF sa.ZoneId > 0
        THEN WithZone([b |-> sa.Addr, z |-> ""], Itoa(sa.ZoneId))
        ELSE [b |-> sa.Addr, z |-> ""]
    ELSE NoAddr

\* The addresses the conversion is tried with: IPv4 addresses (global,
\* link-local, loopback, private, link-local multicast) and IPv6 addresses
\* without zone (loopback, link-local unicast at both ends of fe80::/10,
\* site-local, link-local and site-local multicast, unique-local, global,
\* IPv4-mapped), and the zones: interface indexes from 0 (none) on.
ConvAddrs ==
    {V4(192, 0, 2, 0), V4(169, 254, 1, 1), V4(127, 0, 0, 1), V4(10, 0, 0, 1),
     V4(224, 0, 0, 1),
     V6(0, 0, 1), V6(65152, 0, 1), V6(65215, 65535, 1), V6(65216, 0, 1),
     V6(65282, 0, 1), V6(65285, 0, 1), V6(64512, 0, 1), V6(8193, 3512, 1),
     Mapped(192, 0, 2, 1)}
MaxZone == 3
Zones == 0..MaxZone

\* What recvfromLocked returns: the peer's address and the error; nothing
\* before the first receive.
NoRecv == [ip |-> NoAddr, err |-> "none"]
RecvErr(e) == [ip |-> NoAddr, err |-> e]

\* Nothing to convert.
IdleConv ==
    /\ convIP = NoAddr
    /\ convZone = 0
    /\ convSa = NoSa
    /\ convOut = NoAddr
    /\ rcvSa = NoSa
    /\ rcvRet = NoRecv

\* A conversion is about to be made of any address and any zone.
InitConv ==
    /\ convIP \in ConvAddrs
    /\ convZone \in Zones
    /\ convSa = NoSa
    /\ convOut = NoAddr
    /\ rcvSa = NoSa
    /\ rcvRet = NoRecv

\* sa := toSockaddr(ip, zone)
ToSockaddr ==
    /\ convSa = NoSa
    /\ convSa' = toSockaddr(convIP, convZone)
    /\ UNCHANGED <<convIP, convZone, convOut, rcvSa, rcvRet>>
    /\ UNCHANGED <<engineVars, filterVars, listenVars, ioVars>>

\* ip := fromSockaddr(sa)
FromSockaddr ==
    /\ convSa # NoSa
    /\ convOut = NoAddr
    /\ convOut' = fromSockaddr(convSa)
    /\ UNCHANGED <<convIP, convZone, convSa, rcvSa, rcvRet>>
    /\ UNCHANGED <<engineVars, filterVars, listenVars, ioVars>>

(* ----------------------- receive on an IPv6Conn ----------------------- *)

\* The *net.Interface the transport is set up on.
ifi == [Index |-> 2, Name |-> "eth0"]

\* Mutant of fromSockaddrIPv6: the zone is returned as the kernel gave it.
fromSockaddrIPv6AsIs(sa, i) ==
    IF Is4(fromSockaddr(sa)) THEN RecvErr("foundIPv4")
    ELSE [ip |-> fromSockaddr(sa), err |-> "nil"]

\* fromSockaddrIPv6: an error for an IPv4 address; the interface's name as
\* zone when the zone is strconv.Itoa(ifi.Index); the address as it is
\* when it has no zone; an error for any other zone.
fromSockaddrIPv6(sa, i) ==
    LET ip == fromSockaddr(sa) IN
    IF Is4(ip) THEN RecvErr("foundIPv4")
    ELSE IF ip.z = Itoa(i.Index) THEN [ip |-> WithZone(ip, i.Name), err |-> "nil"]
    ELSE IF ip.z = "" THEN [ip |-> ip, err |-> "nil"]
    ELSE RecvErr("unknownZone")

\* The peer addresses Recvfrom can hand over: an IPv6 socket address with
\* any of the IPv6 addresses and any scope id, or an IPv4 socket address.
PeerSas ==
    {[t |-> "SockaddrInet6", Addr |-> a.b, ZoneId |-> z] :
        a \in {x \in ConvAddrs : Is6(x)}, z \in Zones}
    \cup {[t |-> "SockaddrInet4", Addr |-> a.b] : a \in {x \in ConvAddrs : Is4(x)}}

\* IPv6Conn.recvfromLocked: Recvfrom fails, or icmp.ParseMessage fails on
\* the datagram.
RecvfromIPv6Err(e) ==
    /\ rcvRet' = RecvErr(e)
    /\ UNCHANGED <<convIP, convZone, convSa, convOut, rcvSa>>
    /\ UNCHANGED <<engineVars, filterVars, listenVars, ioVars>>

\* IPv6Conn.recvfromLocked: a datagram of peer sa is received and parsed,
\* and the peer's address converted.
RecvfromIPv6(sa) ==
    /\ rcvSa' = sa
    /\ rcvRet' = fromSockaddrIPv6(sa, ifi)
    /\ UNCHANGED <<convIP, convZone, convSa, convOut>>
    /\ UNCHANGED <<engineVars, filterVars, listenVars, ioVars>>

(* ------------------------ WriteTo of a transport ---------------------- *)

\* No WriteTo yet.
NoWrite == [fam |-> "fIPv4", dst |-> NoAddr, ret |-> "none", was |-> <<>>]

IdleWrite ==
    /\ wr = NoWrite
    /\ sent = <<>>

\* The destinations WriteTo is given: the addresses of the conversion, an
\* IPv6 address with a zone and the zero Addr.
WriteDsts == ConvAddrs \cup {WithZone(V6(65152, 0, 1), "eth0"), NoAddr}

\* Mutant of FamilyOK: any valid address is taken.
FamilyOKAnyValid(fam, d) == IsValid(d)

\* The test WriteTo starts with, negated: dst.Is4() on an IPv4Conn,
\* dst.Is6() on an IPv6Conn.
FamilyOK(fam, d) == IF fam = "fIPv4" THEN Is4(d) ELSE Is6(d)

\* sendto's sockaddr: toSockaddr(dst, 0) on an IPv4Conn and
\* toSockaddr(dst, uint32(c.ifi.Index)) on an IPv6Conn.
SendtoSockaddr(fam, d) == toSockaddr(d, IF fam = "fIPv4" THEN 0 ELSE ifi.Index)

\* IPv4Conn.WriteTo / IPv6Conn.WriteTo: the error for a destination of
\* the wrong family; else msg.Marshal, whose error is returned; else
\* sendto, whose result is returned.
ConnWriteTo(fam, d, outcome) ==
    /\ Len(sent) < MaxSent
    /\ IF ~FamilyOK(fam, d)
         THEN /\ wr' = [fam |-> fam, dst |-> d, ret |-> "wrongFamily", was |-> sent]
              /\ UNCHANGED sent
         ELSE IF outcome = "marshalErr"
         THEN /\ wr' = [fam |-> fam, dst |-> d, ret |-> "marshalErr", was |-> sent]
              /\ UNCHANGED sent
         ELSE /\ wr' = [fam |-> fam, dst |-> d, ret |-> outcome, was |-> sent]
              /\ sent' = Append(sent, [fam |-> fam, sa |-> SendtoSockaddr(fam, d)])
    /\ UNCHANGED <<engineVars, filterVars, listenVars, convVars, readVars>>

(* ---------------------- ReadFrom of an IPv4 transport ----------------- *)

\* ipv4.HeaderLen, the length of an IPv4 header without options.
HeaderLen == 20

\* The lengths of the receive buffer (listenIPv4: make([]byte, ifi.MTU)):
\* one that holds a header without options only, and one that holds every
\* header of the datagrams below and an echo reply behind it.
MTUs == {HeaderLen, 32}

Readers == 1..NumReaders

\* An IPv4 datagram as the raw socket hands it over: n bytes that start
\* with the version and the header length in 32-bit words (IHL).
Header(ihl, n) == [i \in 1..n |-> IF i = 1 THEN 64 + ihl ELSE 0]

\* The bytes of an ICMP message of type t (0 is ipv4.ICMPTypeEchoReply):
\* type, code, checksum, identifier, sequence number.
Icmp(t, id, seq) ==
    <<t, 0, 0, 0, id \div 256, id % 256, seq \div 256, seq % 256>>

PeerSa4 == [t |-> "SockaddrInet4", Addr |-> <<192, 0, 2, 7>>]

\* The datagrams of the socket: echo replies behind a header without and
\* with options, a message of another type, a reply with more data than
\* the larger buffer holds, a datagram cut off inside its ICMP header, and
\* one that ends before the header length it declares.
Datagrams ==
    {[sa |-> PeerSa4, b |-> Header(5, HeaderLen) \o Icmp(0, 1, 1)],
     [sa |-> PeerSa4, b |-> Header(6, 24) \o Icmp(0, 1, 2)],
     [sa |-> PeerSa4, b |-> Header(5, HeaderLen) \o Icmp(3, 0, 0)],
     [sa |-> PeerSa4, b |-> Header(5, HeaderLen) \o Icmp(0, 2, 1) \o <<7, 7, 7, 7, 7, 7, 7, 7>>],
     [sa |-> PeerSa4, b |-> Header(5, HeaderLen) \o <<0, 0>>],
     [sa |-> PeerSa4, b |-> Header(6, HeaderLen)]}

NoDatagram == [sa |-> NoSa, b |-> <<>>]

\* What ReadFrom returns: a message and the peer's address, an error, or
\* no return at all when the goroutine panics.
NoRead == [kind |-> "none", m |-> <<>>, ip |-> NoAddr, err |-> "nil"]
ReadErr(e) == [kind |-> "err", m |-> <<>>, ip |-> NoAddr, err |-> e]
ReadPanic == [kind |-> "panic", m |-> <<>>, ip |-> NoAddr, err |-> "nil"]

\* Recvfrom(ctx, c.b, 0): the datagram's bytes, as many as the buffer
\* holds, written over the start of the buffer; the rest of the buffer
\* keeps what earlier datagrams left there.
Copied(buf, d) == IF Len(d.b) < Len(buf) THEN Len(d.b) ELSE Len(buf)
Filled(buf, d) == [i \in 1..Len(buf) |-> IF i <= Copied(buf, d) THEN d.b[i] ELSE buf[i]]

\* ipv4.ParseHeader(b): an error when b is shorter than HeaderLen or than
\* the header length b declares; else the header, of which Len is used.
ParseHeader(b) ==
    IF Len(b) < HeaderLen THEN [err |-> "headerTooShort", Len |-> 0]
    ELSE IF Len(b) < (b[1] % 16) * 4 THEN [err |-> "extHeaderTooShort", Len |-> 0]
    ELSE [err |-> "nil", Len |-> (b[1] % 16) * 4]

\* icmp.ParseMessage(unix.IPPROTO_ICMP, b): an error when b is shorter
\* than the 4 bytes of type, code and checksum, or an echo message shorter
\* than its identifier and sequence number; else the message.
ParseMessage(b) ==
    IF Len(b) < 4 THEN [err |-> "messageTooShort", m |-> <<>>]
    ELSE IF b[1] \in {0, 8} /\ Len(b) < 8 THEN [err |-> "messageTooShort", m |-> <<>>]
    ELSE [err |-> "nil", m |-> b]

\* IPv4Conn.recvfromLocked after Recvfrom returned n and the peer sa:
\* ipv4.ParseHeader(c.b), on the whole buffer; then the slice expression
\* c.b[h.Len:n], which panics when h.Len > n; then icmp.ParseMessage on
\* the slice, and fromSockaddr(addr).
recvfromLocked(buf, n, sa) ==
    LET h == ParseHeader(buf) IN
    IF h.err # "nil" THEN ReadErr(h.err)
    ELSE IF h.Len > n THEN ReadPanic
    ELSE LET pm == ParseMessage(SubSeq(buf, h.Len + 1, n)) IN
         IF pm.err # "nil" THEN ReadErr(pm.err)
         ELSE [kind |-> "msg", m |-> pm.m, ip |-> fromSockaddr(sa), err |-> "nil"]

\* No ReadFrom call yet, on a transport of the default buffer length.
IdleRead ==
    /\ mtu = 32
    /\ rbuf = [i \in 1..mtu |-> 0]
    /\ rmu = 0
    /\ rdpc = [r \in Readers |-> "idle"]
    /\ rn = [r \in Readers |-> 0]
    /\ got = [r \in Readers |-> NoDatagram]
    /\ taken = [r \in Readers |-> 0]
    /\ rdRet = [r \in Readers |-> NoRead]

\* A transport as listenIPv4 returns it: a zeroed buffer of ifi.MTU bytes.
InitRead ==
    /\ mtu \in MTUs
    /\ rbuf = [i \in 1..mtu |-> 0]
    /\ rmu = 0
    /\ rdpc = [r \in Readers |-> "idle"]
    /\ rn = [r \in Readers |-> 0]
    /\ got = [r \in Readers |-> NoDatagram]
    /\ taken = [r \in Readers |-> 0]
    /\ rdRet = [r \in Readers |-> NoRead]

\* IPv4Conn.ReadFrom: c.mu.Lock().
ReadFromLock(r) ==
    /\ rdpc[r] = "idle"
    /\ rmu = 0
    /\ rmu' = r
    /\ rdpc' = [rdpc EXCEPT ![r] = "locked"]
    /\ UNCHANGED <<mtu, rbuf, rn, got, taken, rdRet>>
    /\ UNCHANGED <<engineVars, filterVars, listenVars, convVars, wr, sent>>

\* recvfromLocked: c.c.Recvfrom(ctx, c.b, 0) receives datagram d.
Recvfrom(r, d) ==
    /\ rdpc[r] = "locked"
    /\ rbuf' = Filled(rbuf, d)
    /\ rn' = [rn EXCEPT ![r] = Copied(rbuf, d)]
    /\ got' = [got EXCEPT ![r] = d]
    /\ taken' = [taken EXCEPT ![r] = @ + 1]
    /\ rdpc' = [rdpc EXCEPT ![r] = "received"]
    /\ UNCHANGED <<mtu, rmu, rdRet>>
    /\ UNCHANGED <<engineVars, filterVars, listenVars, convVars, wr, sent>>

\* recvfromLocked: Recvfrom fails (the socket is closed, the context is
\* done); ReadFrom returns the error and the deferred c.mu.Unlock() runs.
RecvfromErr(r) ==
    /\ rdpc[r] = "locked"
    /\ rdRet' = [rdRet EXCEPT ![r] = ReadErr("recvErr")]
    /\ rmu' = 0
    /\ rdpc' = [rdpc EXCEPT ![r] = "done"]
    /\ UNCHANGED <<mtu, rbuf, rn, got, taken>>
    /\ UNCHANGED <<engineVars, filterVars, listenVars, convVars, wr, sent>>

\* recvfromLocked after Recvfrom: the header and the message are parsed
\* from c.b; ReadFrom returns (or panics) and the deferred c.mu.Unlock()
\* runs.
ReadFromReturn(r) ==
    /\ rdpc[r] = "received"
    /\ rdRet' = [rdRet EXCEPT ![r] = recvfromLocked(rbuf, rn[r], got[r].sa)]
    /\ rmu' = 0
    /\ rdpc' = [rdpc EXCEPT ![r] = "done"]
    /\ UNCHANGED <<mtu, rbuf, rn, got, taken>>
    /\ UNCHANGED <<engineVars, filterVars, listenVars, convVars, wr, sent>>

(* ------------------------ bind address selection ---------------------- *)

\* The index of an interface other than ifi.
OtherIndex == 3

\* A rtnetlink.AddressMessage: family, interface index, Attributes.Address
\* (a byte slice) and Attributes.Flags (the set of the flags that are set).
AddressMessage(af, index, ip, flags) ==
    [Family |-> af, Index |-> index, Address |-> ip.b, Flags |-> flags]

\* The messages a dump is made of: IPv4 addresses in 16-byte form (as
\* net.IPv4 makes them) and in 4-byte form, IPv6 addresses of every class
\* with and without IFA_F_MANAGETEMPADDR, addresses of another interface
\* and messages whose address is not an address (an empty slice).
Messages ==
    {AddressMessage("AF_INET", ifi.Index, Mapped(127, 0, 0, 1), {}),
     AddressMessage("AF_INET", ifi.Index, V4(192, 0, 2, 7), {}),
     AddressMessage("AF_INET", OtherIndex, V4(10, 0, 0, 1), {}),
     AddressMessage("AF_INET", ifi.Index, NoAddr, {}),
     AddressMessage("AF_INET6", ifi.Index, V6(0, 0, 1), {}),
     AddressMessage("AF_INET6", ifi.Index, V6(8193, 3512, 4660), {}),
     AddressMessage("AF_INET6", ifi.Index, V6(8193, 3512, 1),
                    {"IFA_F_MANAGETEMPADDR"}),
     AddressMessage("AF_INET6", ifi.Index, V6(8193, 3512, 2),
                    {"IFA_F_MANAGETEMPADDR", "IFA_F_PERMANENT"}),
     AddressMessage("AF_INET6", ifi.Index, V6(64512, 0, 1),
                    {"IFA_F_MANAGETEMPADDR"}),
     AddressMessage("AF_INET6", ifi.Index, V6(65152, 0, 1),
                    {"IFA_F_MANAGETEMPADDR"}),
     AddressMessage("AF_INET6", OtherIndex, V6(8193, 3512, 153),
                    {"IFA_F_MANAGETEMPADDR"}),
     AddressMessage("AF_INET6", ifi.Index, NoAddr, {"IFA_F_MANAGETEMPADDR"})}

\* A dump has at most MaxMsgs messages.
MaxMsgs == 3
Dumps == UNION {[1..n -> Messages] : n \in 0..MaxMsgs}

\* What a selection returns: sa, ip, ok.
Selected(sa, ip) == [sa |-> sa, ip |-> ip, ok |-> TRUE]
NotSelected == [sa |-> NoSa, ip |-> NoAddr, ok |-> FALSE]

\* Mutant of OfInterface: the interface index is not compared.
OfAnyInterface(m, af) == m.Family = af

\* The test both loops start with, negated: the messages that are not
\* skipped have the family's AF_ value and the interface's index.
OfInterface(m, af) == m.Family = af /\ m.Index = ifi.Index

\* selectIPv4: the first message that is not skipped and whose address
\* AddrFromSlice takes, unmapped, with no zone.
RECURSIVE selectIPv4(_)
selectIPv4(ms) ==
    IF ms = <<>> THEN NotSelected
    ELSE LET m == Head(ms)
             a == AddrFromSlice(m.Address)
         IN  IF ~OfInterface(m, "AF_INET") THEN selectIPv4(Tail(ms))
             ELSE IF ~a.ok THEN selectIPv4(Tail(ms))
             ELSE Selected(toSockaddr(Unmap(a.ip), 0), Unmap(a.ip))

\* Mutant of Preferred: unique-local addresses are not excluded.
PreferredWithPrivate(ip, m) ==
    IsGlobalUnicast(ip) /\ "IFA_F_MANAGETEMPADDR" \in m.Flags

\* selectIPv6's test of the address that overrides the candidate.
Preferred(ip, m) ==
    ~IsPrivate(ip) /\ IsGlobalUnicast(ip) /\ "IFA_F_MANAGETEMPADDR" \in m.Flags

\* selectIPv6's loop: bind after the messages ms, from the candidate b.
RECURSIVE selectIPv6Loop(_, _)
selectIPv6Loop(ms, b) ==
    IF ms = <<>> THEN b
    ELSE LET m == Head(ms)
             a == AddrFromSlice(m.Address)
             first == IF ~IsValid(b) THEN a.ip ELSE b
         IN  IF ~OfInterface(m, "AF_INET6") THEN selectIPv6Loop(Tail(ms), b)
             ELSE IF ~a.ok THEN selectIPv6Loop(Tail(ms), b)
             ELSE IF Preferred(a.ip, m) THEN selectIPv6Loop(Tail(ms), a.ip)
             ELSE selectIPv6Loop(Tail(ms), first)

selectIPv6(ms) ==
    LET b == selectIPv6Loop(ms, NoAddr) IN
    IF ~IsValid(b) THEN NotSelected
    ELSE Selected(toSockaddr(b, ifi.Index), b)

\* bindContext.Select
Select(fam, ms) == IF fam = "fIPv4" THEN selectIPv4(ms) ELSE selectIPv6(ms)

(* ------------------------------- listen ------------------------------- *)

\* cfg.Filter, a pointer: nil, or a filter with its data.
NilFilter == <<>>
FilterOf(data) == <<data>>

\* The configurations listen is called with: no filter, or the filter
\* NewClient passes (only echo replies of the family are let in).
Configs(fam) ==
    {[Filter |-> NilFilter],
     [Filter |-> FilterOf(IF fam = "fIPv4" THEN IPv4AllowOnly(<<0>>)
                          ELSE IPv6AllowOnly(<<129>>))]}

\* No socket, and no result of listen yet.
NoSock == [open |-> FALSE, ifindex |-> 0, filter |-> NilFilter, bound |-> NoSa]
NoConn == [err |-> "none", IP |-> NoAddr]

\* listen is not called.
IdleListen ==
    /\ family = "fIPv4"
    /\ cfg = [Filter |-> NilFilter]
    /\ msgs = <<>>
    /\ lpc = "idle"
    /\ bind = NotSelected
    /\ sock = NoSock
    /\ calls = <<>>
    /\ lret = NoConn

\* ListenIPv4 or ListenIPv6 is called with any configuration, on an
\* interface with any addresses.
InitListen ==
    /\ family \in {"fIPv4", "fIPv6"}
    /\ cfg \in Configs(family)
    /\ msgs \in Dumps
    /\ lpc = "bindSockaddr"
    /\ bind = NotSelected
    /\ sock = NoSock
    /\ calls = <<>>
    /\ lret = NoConn

\* Mutant of CloseOnErr: the error is returned without conn.Close().
CloseOnErrLeak(sk) == sk

\* _ = conn.Close() on the error branches.
CloseOnErr(sk) == [sk EXCEPT !.open = FALSE]

\* Mutant of AfterBindToIf: the filter is never installed.
AfterBindToIfBind(c) == "bind"

\* if cfg.Filter != nil: the step that follows SO_BINDTOIFINDEX.
AfterBindToIf(c) == IF c.Filter # NilFilter THEN "filter" ELSE "bind"

\* bindSockaddr: the dump is taken and Select chooses; listen returns the
\* error when nothing is selected.
BindSockaddr ==
    /\ lpc = "bindSockaddr"
    /\ bind' = Select(family, msgs)
    /\ calls' = Append(calls, "bindSockaddr")
    /\ IF bind'.ok
         THEN lpc' = "socket" /\ UNCHANGED lret
         ELSE lpc' = "done" /\ lret' = [err |-> "noBindAddr", IP |-> NoAddr]
    /\ UNCHANGED <<family, cfg, msgs, sock>>
    /\ UNCHANGED <<engineVars, filterVars, convVars, ioVars>>

\* bindSockaddr: rtnetlink.Dial or Execute fails.
BindSockaddrErr ==
    /\ lpc = "bindSockaddr"
    /\ calls' = Append(calls, "bindSockaddr")
    /\ lret' = [err |-> "netlinkErr", IP |-> NoAddr]
    /\ lpc' = "done"
    /\ UNCHANGED <<family, cfg, msgs, bind, sock>>
    /\ UNCHANGED <<engineVars, filterVars, convVars, ioVars>>

\* socket.Socket succeeds.
Socket ==
    /\ lpc = "socket"
    /\ sock' = [sock EXCEPT !.open = TRUE]
    /\ calls' = Append(calls, "socket")
    /\ lpc' = "bindToIf"
    /\ UNCHANGED <<family, cfg, msgs, bind, lret>>
    /\ UNCHANGED <<engineVars, filterVars, convVars, ioVars>>

\* socket.Socket fails: there is no socket.
SocketErr ==
    /\ lpc = "socket"
    /\ calls' = Append(calls, "socket")
    /\ lret' = [err |-> "socketErr", IP |-> NoAddr]
    /\ lpc' = "done"
    /\ UNCHANGED <<family, cfg, msgs, bind, sock>>
    /\ UNCHANGED <<engineVars, filterVars, convVars, ioVars>>

\* An operation on the open socket fails at position at: the socket is
\* closed and the error returned.
FailAt(at, op, err) ==
    /\ lpc = at
    /\ sock' = CloseOnErr(sock)
    /\ calls' = calls \o <<op, "close">>
    /\ lret' = [err |-> err, IP |-> NoAddr]
    /\ lpc' = "done"
    /\ UNCHANGED <<family, cfg, msgs, bind>>
    /\ UNCHANGED <<engineVars, filterVars, convVars, ioVars>>

\* conn.SetsockoptInt(SOL_SOCKET, SO_BINDTOIFINDEX, ifi.Index)
BindToIf ==
    /\ lpc = "bindToIf"
    /\ sock' = [sock EXCEPT !.ifindex = ifi.Index]
    /\ calls' = Append(calls, "bindToIf")
    /\ lpc' = AfterBindToIf(cfg)
    /\ UNCHANGED <<family, cfg, msgs, bind, lret>>
    /\ UNCHANGED <<engineVars, filterVars, convVars, ioVars>>

BindToIfErr == FailAt("bindToIf", "bindToIf", "bindToIfErr")

\* cfg.Filter.set(conn)
SetFilter ==
    /\ lpc = "filter"
    /\ sock' = [sock EXCEPT !.filter = cfg.Filter]
    /\ calls' = Append(calls, "filter")
    /\ lpc' = "bind"
    /\ UNCHANGED <<family, cfg, msgs, bind, lret>>
    /\ UNCHANGED <<engineVars, filterVars, convVars, ioVars>>

SetFilterErr == FailAt("filter", "filter", "filterErr")

\* conn.Bind(sa) and the return of the transport.
Bind ==
    /\ lpc = "bind"
    /\ sock' = [sock EXCEPT !.bound = bind.sa]
    /\ calls' = Append(calls, "bind")
    /\ lret' = [err |-> "nil", IP |-> bind.ip]
    /\ lpc' = "done"
    /\ UNCHANGED <<family, cfg, msgs, bind>>
    /\ UNCHANGED <<engineVars, filterVars, convVars, ioVars>>

BindErr == FailAt("bind", "bind", "bindErr")

\* The state after construction: one engine, zero filters, no transport
\* being set up, nothing to convert.
Init == InitEngine /\ ZeroFilters /\ IdleListen /\ IdleConv /\ IdleWrite /\ IdleRead

(* --------------------------- specification ---------------------------- *)

PingStep(p) ==
    \/ EchoKnown(p)
    \/ EchoRandErr(p)
    \/ EchoNew(p)
    \/ EchoRegister(p)
    \/ WriteTo(p)
    \/ WriteToErr(p)
    \/ RLock(p)
    \/ Recv(p)
    \/ Tick(p)
    \/ CtxDone(p)

ReaderStep ==
    \/ \E m \in reqs : ReadFrom(m)
    \/ \E i \in IDs : ReadFromStray(i)
    \/ \E e \in ReadErrs : ReadFromErr(e)
    \/ ReadLoopReturn
    \/ ReaderRLock
    \/ ReaderDeliver
    \/ ReaderDiscard

Next ==
    \/ \E p \in Procs, d \in Dsts : StartPing(p, d)
    \/ \E p \in Procs : Cancel(p)
    \/ \E p \in Procs : PingStep(p)
    \/ ReaderStep

Spec == Init /\ [][Next]_vars

\* The scheduling the code runs under: a goroutine that can take a step
\* takes one (each Ping call, the reader), and every caller's context is
\* cancelled at some time (callers apply their own deadline).
Fairness ==
    /\ \A p \in Procs : WF_vars(PingStep(p))
    /\ \A p \in Procs : WF_vars(Cancel(p))
    /\ WF_vars(ReaderStep)

FairSpec == Spec /\ Fairness

\* The largest value of a 16-bit field, and the attempts that were made to
\* the first destination before the calls of the model are made.
MaxUint16 == 2 ^ 16 - 1
Attempts == MaxUint16 - 1

\* An engine that has been in use for a long time: earlier calls, all
\* returned, made Attempts attempts to the first destination, whose echo
\* state and reply channel exist since the first of them; nothing of
\* these calls is on the wire or in the channel any more.
InitLongEngine ==
    /\ pings = [d \in Dsts |-> IF d = 1 THEN [NewEcho(<<1, 1>>) EXCEPT !.Seq = Attempts]
                                ELSE NoEcho]
    /\ responses = [i \in IDs |-> [open |-> i = 1, buf |-> <<>>, by |-> 0]]
    /\ pingsMu = 0
    /\ resMu = [readers |-> {}, pending |-> 0]
    /\ pc = [p \in Procs |-> "idle"]
    /\ dst = [p \in Procs |-> NoIP]
    /\ ctxDone = [p \in Procs |-> FALSE]
    /\ echo = [p \in Procs |-> NoEcho]
    /\ result = [p \in Procs |-> NoResult]
    /\ sentBy = [p \in Procs |-> <<>>]
    /\ retries = [p \in Procs |-> <<>>]
    /\ timeouts = [p \in Procs |-> 0]
    /\ reqs = {}
    /\ dropped = {}
    /\ answered = {}
    /\ recv = FALSE
    /\ strays = 0
    /\ rpc = "recv"
    /\ rmsg = NoMsg
    /\ rerr = "none"
    /\ egErr = "none"
    /\ engineDone = FALSE
    /\ closePc = "idle"
    /\ connClosed = FALSE
    /\ connRet = "none"
    /\ closeRet = "none"
    /\ v6Ret = "none"
    /\ clientRet = "none"

InitLong == InitLongEngine /\ ZeroFilters /\ IdleListen /\ IdleConv /\ IdleWrite /\ IdleRead

SpecLong == InitLong /\ [][Next]_vars

\* The engine when nothing fails and nobody cancels: rand.Read and WriteTo
\* succeed, the peers answer every request (ReadFrom returns the reply of
\* every request on the wire, at any time before or after the retry
\* delay), no other datagram arrives and the reader's receive does not
\* fail; every goroutine that can take a step takes one.
AnsweredPingStep(p) ==
    \/ EchoKnown(p)
    \/ EchoNew(p)
    \/ EchoRegister(p)
    \/ WriteTo(p)
    \/ RLock(p)
    \/ Recv(p)
    \/ Tick(p)

AnsweredReaderStep ==
    \/ \E m \in reqs : ReadFrom(m)
    \/ ReaderRLock
    \/ ReaderDeliver

NextAnswered ==
    \/ \E p \in Procs, d \in Dsts : StartPing(p, d)
    \/ \E p \in Procs : AnsweredPingStep(p)
    \/ AnsweredReaderStep

FairAnswered ==
    /\ \A p \in Procs : WF_vars(AnsweredPingStep(p))
    /\ WF_vars(AnsweredReaderStep)

SpecAnswered == Init /\ [][NextAnswered]_vars /\ FairAnswered

\* The engine of TestClientPingRetry: the peer is the emulated host whose
\* OnEcho drops the first request and echoes the later ones, and sends
\* nothing else.
NextRetry ==
    \/ \E p \in Procs, d \in Dsts : StartPing(p, d)
    \/ \E p \in Procs : Cancel(p)
    \/ \E p \in Procs : PingStep(p)
    \/ \E m \in reqs : HostDrop(m)
    \/ \E m \in reqs : recv /\ ReadFrom(m)
    \/ ReaderRLock
    \/ ReaderDeliver

SpecRetry == Init /\ [][NextRetry]_vars

\* The engine with Client.Close called at any time, once; the peers answer
\* or lose the requests and nothing else reaches the socket.
CloseStep ==
    \/ CloseCancel
    \/ \E connErr \in ConnErrs : CloseConn(connErr)
    \/ \E err6 \in CloseErrs : CloseV6(err6)

NextClose ==
    \/ \E p \in Procs, d \in Dsts : StartPing(p, d)
    \/ \E p \in Procs : Cancel(p)
    \/ \E p \in Procs : PingStep(p)
    \/ \E m \in reqs : ReadFrom(m)
    \/ \E e \in ReadErrs : ReadFromErr(e)
    \/ ReadLoopReturn
    \/ ReaderRLock
    \/ ReaderDeliver
    \/ CloseStep

SpecClose == Init /\ [][NextClose]_vars

\* The reader's steps under SpecClose.
CloseReaderStep ==
    \/ \E m \in reqs : ReadFrom(m)
    \/ \E e \in ReadErrs : ReadFromErr(e)
    \/ ReadLoopReturn
    \/ ReaderRLock
    \/ ReaderDeliver

\* The scheduling of SpecClose: every goroutine that can take a step takes
\* one, every caller's context is cancelled at some time, and a receive
\* whose context is cancelled returns (a receive returns an error at some
\* time in any case).
FairClose ==
    /\ \A p \in Procs : WF_vars(PingStep(p))
    /\ \A p \in Procs : WF_vars(Cancel(p))
    /\ WF_vars(CloseReaderStep)
    /\ WF_vars(\E e \in ReadErrs : ReadFromErr(e))
    /\ WF_vars(CloseStep)

FairSpecClose == SpecClose /\ FairClose

\* The engine with its own Close called at any time and peers that stay
\* silent: calls send, wait, time out, send again and are cancelled, the
\* reader's receive returns only an error, Close cancels, waits and closes.
\* Every goroutine that can take a step takes one and every caller's
\* context is cancelled at some time.
SilentPingStep(p) ==
    \/ EchoKnown(p)
    \/ EchoRandErr(p)
    \/ EchoNew(p)
    \/ EchoRegister(p)
    \/ WriteTo(p)
    \/ WriteToErr(p)
    \/ RLock(p)
    \/ Tick(p)
    \/ CtxDone(p)

SilentReaderStep ==
    \/ \E e \in ReadErrs : ReadFromErr(e)
    \/ ReadLoopReturn

EngineCloseStep ==
    \/ CloseCancel
    \/ \E connErr \in ConnErrs : CloseConn(connErr)

NextSilent ==
    \/ \E p \in Procs, d \in Dsts : StartPing(p, d)
    \/ \E p \in Procs : Cancel(p)
    \/ \E p \in Procs : SilentPingStep(p)
    \/ SilentReaderStep
    \/ EngineCloseStep

FairSilent ==
    /\ \A p \in Procs : WF_vars(SilentPingStep(p))
    /\ \A p \in Procs : WF_vars(Cancel(p))
    /\ WF_vars(SilentReaderStep)
    /\ WF_vars(EngineCloseStep)

SpecSilent == Init /\ [][NextSilent]_vars /\ FairSilent

\* The packet filters: any operations on an IPv4Filter and an IPv6Filter.
NextFilter ==
    \/ \E types \in TypeLists : AllowOnly4(types)
    \/ \E typ \in FilterTypes : Accept4(typ)
    \/ \E typ \in FilterTypes : Block4(typ)
    \/ \E block \in BOOLEAN : SetAll4(block)
    \/ \E types \in TypeLists : AllowOnly6(types)
    \/ \E typ \in FilterTypes : Accept6(typ)
    \/ \E typ \in FilterTypes : Block6(typ)
    \/ \E block \in BOOLEAN : SetAll6(block)

SpecFilter == Init /\ [][NextFilter]_vars

\* ListenIPv4 / ListenIPv6: one call, every step of which can fail.
NextListen ==
    \/ BindSockaddr
    \/ BindSockaddrErr
    \/ Socket
    \/ SocketErr
    \/ BindToIf
    \/ BindToIfErr
    \/ SetFilter
    \/ SetFilterErr
    \/ Bind
    \/ BindErr

InitSpecListen == InitEngine /\ ZeroFilters /\ InitListen /\ IdleConv /\ IdleWrite /\ IdleRead

SpecListen == InitSpecListen /\ [][NextListen]_vars

\* One conversion of an address to a socket address and back, and the
\* receives of an IPv6 transport.
NextConv ==
    \/ ToSockaddr
    \/ FromSockaddr
    \/ \E e \in {"recvErr", "parseErr"} : RecvfromIPv6Err(e)
    \/ \E sa \in PeerSas : RecvfromIPv6(sa)

InitSpecConv == InitEngine /\ ZeroFilters /\ IdleListen /\ InitConv /\ IdleWrite /\ IdleRead

SpecConv == InitSpecConv /\ [][NextConv]_vars

\* WriteTo on an IPv4Conn and on an IPv6Conn, with any destination.
NextWrite ==
    \E fam \in {"fIPv4", "fIPv6"}, d \in WriteDsts,
       outcome \in {"nil", "marshalErr", "sendErr"} : ConnWriteTo(fam, d, outcome)

SpecWrite == Init /\ [][NextWrite]_vars

\* ReadFrom calls on one IPv4 transport, with any datagram of the socket.
NextRead ==
    \E r \in Readers :
        \/ ReadFromLock(r)
        \/ \E d \in Datagrams : Recvfrom(r, d)
        \/ RecvfromErr(r)
        \/ ReadFromReturn(r)

InitSpecRead == InitEngine /\ ZeroFilters /\ IdleListen /\ IdleConv /\ IdleWrite /\ InitRead

SpecRead == InitSpecRead /\ [][NextRead]_vars

(* ------------------------------ claims -------------------------------- *)

Returned(p) == pc[p] = "done"
GotResponse(p) == result[p].kind = "response"

\* The sequence numbers of the requests call p handed to WriteTo.
SeqsSentBy(p) == {sentBy[p][i].Seq : i \in 1..Len(sentBy[p])}

\* C1: every Response a Ping call returns has Pong identical to Ping: the
\* same identifier, the same sequence number and the same payload.
C1_PongIsPing ==
    \A p \in Procs : GotResponse(p) => result[p].Pong = result[p].Ping

\* C2: the sequence number of a returned Response.Pong is the sequence
\* number of a request that the same Ping call transmitted.
C2_PongAnswersOwnRequest ==
    \A p \in Procs : GotResponse(p) => result[p].Pong.Seq \in SeqsSentBy(p)

\* C3: the IP of a returned Response is the destination of the Ping call.
C3_ResponseIPIsDst ==
    \A p \in Procs : GotResponse(p) => result[p].IP = dst[p]

\* Call p is the only call to its destination, the host dropped the first
\* request to that destination and nothing else, and answered the second.
DroppedFirstOnly(p) ==
    /\ \A q \in Procs \ {p} : pc[q] # "idle" => dst[q] # dst[p]
    /\ dropped = {<<dst[p], 1>>}
    /\ <<dst[p], 2>> \in answered

\* What C4 concludes of call p: two requests, Seq 1 then Seq 2 with the
\* same identifier and payload, one retry hook with the first request, and
\* Response.Ping.Seq = 2.
OneRetry(p) ==
    /\ Len(sentBy[p]) = 2
    /\ sentBy[p][1].Seq = 1
    /\ sentBy[p][2] = [sentBy[p][1] EXCEPT !.Seq = 2]
    /\ retries[p] = <<sentBy[p][1]>>
    /\ result[p].Ping.Seq = 2

\* C4 as claimed: when the peer drops exactly the first request to a fresh
\* destination and answers the second, the single Ping call to it retries
\* exactly once and returns the second request.
C4_ExactlyOneRetry ==
    \A p \in Procs : GotResponse(p) /\ DroppedFirstOnly(p) => OneRetry(p)

\* C4 as amended: the same, provided the retry timer of the second attempt
\* does not fire before the call takes a reply (the timer fired once).
C4_OneRetryIfTimely ==
    \A p \in Procs :
        GotResponse(p) /\ DroppedFirstOnly(p) /\ timeouts[p] = 1 => OneRetry(p)

C4_Witness ==
    \E p \in Procs :
        /\ GotResponse(p) /\ DroppedFirstOnly(p) /\ timeouts[p] = 1
        /\ result[p].Pong = result[p].Ping

\* The calls made to destination d so far.
CallsTo(d) == {p \in Procs : pc[p] # "idle" /\ dst[p] = d}

\* Whether call p holds a message made by echo() for its current attempt.
HasEcho(p) == echo[p].Seq > 0

\* C5: every request sent to a destination, by any call and any retry, and
\* every message echo() handed out for it, carries the identifier and the
\* payload that the destination's echo state holds (generated once).
C5_SameIdAndPayload ==
    \A p \in Procs : pc[p] # "idle" =>
        /\ \A i \in 1..Len(sentBy[p]) :
             /\ sentBy[p][i].ID = pings[dst[p]].ID
             /\ sentBy[p][i].Data = pings[dst[p]].Data
        /\ HasEcho(p) =>
             /\ echo[p].ID = pings[dst[p]].ID
             /\ echo[p].Data = pings[dst[p]].Data

\* Two calls have sent to one destination, one of them after a retry.
C5_Witness ==
    \E p, q \in Procs :
        /\ p # q /\ pc[p] # "idle" /\ pc[q] # "idle" /\ dst[p] = dst[q]
        /\ Len(sentBy[p]) >= 2 /\ Len(sentBy[q]) >= 1

\* The sequence numbers echo() has handed out to call p: those it sent and
\* the one of its current (or last) attempt.
SeqsTakenBy(p) == SeqsSentBy(p) \cup (IF HasEcho(p) THEN {echo[p].Seq} ELSE {})

\* C6: the attempts to a destination take the sequence numbers 1, 2, 3, ...
\* one by one: the numbers handed out so far are exactly 1..n with n the
\* destination's counter, each call's requests carry increasing numbers,
\* and no two calls hold or sent the same number.
C6_SeqsConsecutive ==
    \A d \in Dsts :
        /\ UNION {SeqsTakenBy(p) : p \in CallsTo(d)} = 1..pings[d].Seq
        /\ \A p, q \in CallsTo(d) : p # q => SeqsTakenBy(p) \cap SeqsTakenBy(q) = {}
        /\ \A p \in CallsTo(d) : \A i, j \in 1..Len(sentBy[p]) :
             i < j => sentBy[p][i].Seq < sentBy[p][j].Seq

\* Two calls to one destination whose attempts interleave: 1 and 3 by one
\* call, 2 by the other.
C6_Witness ==
    \E p, q \in Procs :
        /\ p # q /\ pc[p] # "idle" /\ pc[q] # "idle" /\ dst[p] = dst[q]
        /\ {1, 3} \subseteq SeqsSentBy(p)
        /\ 2 \in SeqsSentBy(q)

\* C7: a Ping call whose context is cancelled returns; it does not stay
\* blocked after the cancellation, whatever the other calls and the reader
\* are doing.
C7_CancelledCallReturns ==
    \A p \in Procs : ctxDone[p] ~> Returned(p)

\* C10: the reader never blocks while delivering: it is never parked in the
\* send on a channel whose single slot holds an untaken reply.
C10_ReaderNeverBlocks ==
    ~(rpc = "send" /\ responses[rmsg.ID].open /\ ~CanSend(responses[rmsg.ID]))

\* Whether call p holds or waits for one of the engine's locks.
InLocks(p) == p \in resMu.readers \/ pingsMu = p \/ resMu.pending = p

C9_TimeoutIsRetried ==
    \A p \in Procs :
        /\ Returned(p) <=> result[p].kind # "none"
        /\ result[p].kind \in {"none", "response", "canceled", "sendErr", "randErr"}
        /\ pc[p] \in {"rlock", "wait"} => Len(sentBy[p]) = timeouts[p] + 1
        /\ Len(retries[p]) = timeouts[p]
        /\ \A i \in 1..Len(retries[p]) : retries[p][i] = sentBy[p][i]

\* A call timed out twice and then returned a Response.
C9_Witness ==
    \E p \in Procs : timeouts[p] = 2 /\ GotResponse(p) /\ Len(sentBy[p]) = 3

\* C11: Close cancels the reader, waits until readLoop has returned and only
\* then closes the transport: conn.Close is never called before the
\* cancellation, nor while the reader runs or is inside a receive.
C11_CloseAfterReader ==
    /\ closePc # "idle" => engineDone
    /\ closePc = "wait" => ~connClosed
    /\ connClosed => rpc = "done" /\ closePc = "done"

\* Close returned after the reader was stopped by the cancellation while a
\* Ping call had been answered.
C11_Witness ==
    /\ connClosed /\ rerr = "canceled" /\ egErr = "nil"
    /\ \E p \in Procs : GotResponse(p)

C13_ClientClosesBoth ==
    clientRet # "none" =>
        /\ closePc = "done" /\ connClosed
        /\ v6Ret # "none"
        /\ closeRet # "nil" => clientRet = closeRet
        /\ closeRet = "nil" => clientRet = v6Ret

\* Closing the IPv4 engine failed, the IPv6 engine was closed and failed
\* in another way, and Client.Close returned the first error.
C13_Witness ==
    closeRet = "readErr" /\ v6Ret = "closeErr" /\ clientRet = "readErr"

\* The elements of a sequence, and the least and the greatest of a set of
\* positions.
Range(s) == {s[i] : i \in 1..Len(s)}
First(S) == CHOOSE i \in S : \A j \in S : i <= j
Last(S) == CHOOSE i \in S : \A j \in S : i >= j

\* C14: for a filter IPv4AllowOnly(L) or IPv6AllowOnly(L) has just built
\* and every type code t of 0..255, WillBlock(t) is true if and only if t
\* is not in L.
C14_AllowOnlyBlocksTheRest ==
    /\ fop.op = "IPv4AllowOnly" =>
         \A t \in TypeCodes : IPv4WillBlock(f4, t) <=> t \notin Range(fop.types)
    /\ fop.op = "IPv6AllowOnly" =>
         \A t \in TypeCodes : IPv6WillBlock(f6, t) <=> t \notin Range(fop.types)

\* C15: Block and Accept are point updates, on a filter in any state:
\* after Block(t) WillBlock(t) is true, after Accept(t) it is false, and
\* WillBlock(u) is what it was for every other type code u; for both
\* families.
C15_PointUpdates ==
    /\ fop.op \in {"IPv4Block", "IPv4Accept"} =>
         /\ IPv4WillBlock(f4, fop.typ) <=> fop.op = "IPv4Block"
         /\ \A u \in TypeCodes \ {fop.typ} :
              IPv4WillBlock(f4, u) <=> IPv4WillBlock(fop.was, u)
    /\ fop.op \in {"IPv6Block", "IPv6Accept"} =>
         /\ IPv6WillBlock(f6, fop.typ) <=> fop.op = "IPv6Block"
         /\ \A u \in TypeCodes \ {fop.typ} :
              IPv6WillBlock(f6, u) <=> IPv6WillBlock(fop.was, u)

\* listen has returned an error.
ListenFailed == lpc = "done" /\ lret.err # "nil"

\* C16: whenever listen returns an error no socket is left open: after a
\* failure of the address selection or of socket.Socket there is no socket
\* and nothing is closed; after a failure of SO_BINDTOIFINDEX, of the
\* filter or of bind the socket that was opened has been closed, last.
C16_NoSocketLeftOnError ==
    ListenFailed =>
        /\ ~sock.open
        /\ lret.err \in {"noBindAddr", "netlinkErr", "socketErr"} =>
             "close" \notin Range(calls)
        /\ lret.err \in {"bindToIfErr", "filterErr", "bindErr"} =>
             /\ "socket" \in Range(calls)
             /\ calls[Len(calls)] = "close"

\* Installing the configured filter failed and the socket was closed.
C16_Witness ==
    /\ ListenFailed /\ lret.err = "filterErr"
    /\ calls = <<"bindSockaddr", "socket", "bindToIf", "filter", "close">>
    /\ ~sock.open

\* The place of an operation in listen.
Rank(op) ==
    CASE op = "bindSockaddr" -> 1
      [] op = "socket" -> 2
      [] op = "bindToIf" -> 3
      [] op = "filter" -> 4
      [] op = "bind" -> 5
      [] op = "close" -> 6

\* C17: the steps of listen are made in the order bindSockaddr, socket,
\* SO_BINDTOIFINDEX, filter, bind, none of the first three left out; a
\* configured filter is installed before bind is called, so that the socket
\* is never bound without it; with a nil filter none is installed.
C17_FilterBeforeBind ==
    /\ \A i, j \in 1..Len(calls) : i < j => Rank(calls[i]) < Rank(calls[j])
    /\ \A i \in 1..Len(calls) :
         \A op \in {"bindSockaddr", "socket", "bindToIf"} :
            Rank(op) < Rank(calls[i]) => op \in Range(calls)
    /\ "bind" \in Range(calls) /\ cfg.Filter # NilFilter =>
         "filter" \in Range(calls) /\ sock.filter = cfg.Filter
    /\ sock.bound # NoSa => sock.filter = cfg.Filter
    /\ cfg.Filter = NilFilter =>
         "filter" \notin Range(calls) /\ sock.filter = NilFilter

\* An IPv6 transport was set up with its filter.
C17_Witness ==
    /\ family = "fIPv6" /\ cfg.Filter # NilFilter
    /\ lret.err = "nil" /\ sock.open /\ sock.bound = bind.sa
    /\ calls = <<"bindSockaddr", "socket", "bindToIf", "filter", "bind">>

\* The selection was made on the dump.
HasSelected == lpc \notin {"idle", "bindSockaddr"} /\ lret.err # "netlinkErr"

\* The messages a selection considers: of the family, of the interface,
\* with an address; and the address of one of them.
Considered(af) ==
    {i \in 1..Len(msgs) :
        /\ msgs[i].Family = af
        /\ msgs[i].Index = ifi.Index
        /\ Len(msgs[i].Address) \in {4, 16}}
AddressOf(i) == [b |-> msgs[i].Address, z |-> ""]

\* The considered messages whose address is global unicast, not
\* unique-local, and flagged as managing temporary addresses.
Better ==
    {i \in Considered("AF_INET6") :
        /\ IsGlobalUnicast(AddressOf(i))
        /\ ~IsPrivate(AddressOf(i))
        /\ "IFA_F_MANAGETEMPADDR" \in msgs[i].Flags}

\* C18: the IPv6 selection returns the last considered message that is
\* global unicast, not unique-local and flagged when there is one, the
\* first considered message otherwise, and fails with the
\* no-valid-bind-address error exactly when no message is considered.
C18_SelectIPv6 ==
    family = "fIPv6" /\ HasSelected =>
        /\ bind.ok <=> Considered("AF_INET6") # {}
        /\ ~bind.ok => lret.err = "noBindAddr"
        /\ bind.ok =>
             bind.ip = IF Better # {} THEN AddressOf(Last(Better))
                       ELSE AddressOf(First(Considered("AF_INET6")))

\* Two flagged global addresses after a plain one: the last is selected.
C18_Witness ==
    /\ family = "fIPv6" /\ HasSelected /\ bind.ok
    /\ Cardinality(Better) = 2
    /\ First(Considered("AF_INET6")) \notin Better
    /\ bind.ip = AddressOf(Last(Better))

Decimal == <<"1", "2", "3", "4", "5", "6", "7", "8", "9">>

\* Whether toSockaddr takes the address for link-local.
LinkLocal(ip) == IsLinkLocalUnicast(ip) \/ IsLinkLocalMulticast(ip)

\* C20: fromSockaddr(toSockaddr(ip, zone)) is ip for every zone when ip,
\* an IPv4 address or an IPv6 address without zone, is not link-local; it
\* is ip with the zone's decimal string when ip is a link-local IPv6
\* address and the zone is not 0; and toSockaddr attaches a zone only to
\* link-local unicast and link-local multicast IPv6 addresses.
C20_RoundTrip ==
    convOut # NoAddr =>
        /\ ~LinkLocal(convIP) => convOut = convIP
        /\ Is6(convIP) /\ LinkLocal(convIP) /\ convZone # 0 =>
             convOut = [b |-> convIP.b, z |-> Decimal[convZone]]
        /\ convSa.t = "SockaddrInet4" <=> Is4(convIP)
        /\ convSa.t = "SockaddrInet6" /\ convSa.ZoneId # 0 =>
             Is6(convIP) /\ LinkLocal(convIP) /\ convSa.ZoneId = convZone

\* A link-local multicast IPv6 address came back with the zone "2".
C20_Witness ==
    /\ Is6(convIP) /\ IsLinkLocalMulticast(convIP) /\ convZone = 2
    /\ convOut = [convIP EXCEPT !.z = "2"]

\* The receive got as far as the conversion of the peer's address.
Converted == rcvRet.err \in {"nil", "foundIPv4", "unknownZone"}

\* C21: on receive on an IPv6 transport, a peer zone equal to the
\* interface's index comes back as the interface's name, no zone as no
\* zone, any other zone as the unknown-zone error, an IPv4 socket address
\* as an error; an address that is returned has the 16 bytes received.
C21_ZoneOfPeer ==
    Converted =>
        /\ rcvSa.t = "SockaddrInet4" <=> rcvRet.err = "foundIPv4"
        /\ rcvSa.t = "SockaddrInet6" =>
             /\ rcvSa.ZoneId = ifi.Index =>
                  rcvRet = [ip |-> [b |-> rcvSa.Addr, z |-> ifi.Name], err |-> "nil"]
             /\ rcvSa.ZoneId = 0 =>
                  rcvRet = [ip |-> [b |-> rcvSa.Addr, z |-> ""], err |-> "nil"]
             /\ rcvSa.ZoneId \notin {0, ifi.Index} => rcvRet.err = "unknownZone"
        /\ rcvRet.err = "nil" => rcvRet.ip.b = rcvSa.Addr /\ Len(rcvRet.ip.b) = 16
        /\ rcvRet.err # "nil" => rcvRet.ip = NoAddr

\* A link-local peer was received with the interface's index as its scope.
C21_Witness ==
    /\ rcvSa.t = "SockaddrInet6" /\ rcvSa.ZoneId = ifi.Index
    /\ IsLinkLocalUnicast([b |-> rcvSa.Addr, z |-> ""])
    /\ rcvRet.err = "nil" /\ rcvRet.ip.z = "eth0"

\* The last WriteTo was given a destination of the other family.
WrongFamily ==
    \/ wr.fam = "fIPv4" /\ ~Is4(wr.dst)
    \/ wr.fam = "fIPv6" /\ ~Is6(wr.dst)

\* C22: WriteTo with a destination that is not an address of the
\* transport's family returns the error and hands nothing to the socket;
\* no datagram reaches a socket with a sockaddr of the other family.
C22_WrongFamilyRejected ==
    /\ wr.ret # "none" /\ WrongFamily => wr.ret = "wrongFamily" /\ sent = wr.was
    /\ wr.ret = "wrongFamily" => WrongFamily
    /\ \A i \in 1..Len(sent) :
         sent[i].sa.t = IF sent[i].fam = "fIPv4" THEN "SockaddrInet4"
                        ELSE "SockaddrInet6"

\* An IPv4Conn that had sent a datagram rejected an IPv4-mapped IPv6
\* destination.
C22_Witness ==
    /\ wr.fam = "fIPv4" /\ Is4In6(wr.dst) /\ wr.ret = "wrongFamily"
    /\ Len(sent) = 1 /\ sent = wr.was

\* Call p is kept from its next step by call q, a call to another
\* destination that waits for its reply or its retry timer: p is in
\* resMu.Lock (new destination) and q holds the read lock in its select.
WaitsFor(p, q) ==
    /\ p # q /\ dst[p] # dst[q]
    /\ pc[p] = "wlock" /\ resMu.pending = p
    /\ pc[q] = "wait" /\ q \in resMu.readers

\* C23: Ping calls to different destinations do not contend: no call,
\* the first call to a new destination included, is ever kept waiting
\* by a call to another destination that waits for its reply or for its
\* retry delay.
C23_NoContention ==
    \A p, q \in Procs : ~WaitsFor(p, q)

\* C24: when the peers answer every request and nobody cancels, every
\* Ping call that was made returns a Response: the reader and the callers
\* never wait on each other for ever.
C24_EveryPingReturns ==
    \A p \in Procs : (pc[p] # "idle") ~> GotResponse(p)

\* The state C24 excludes, which is reached: the reader is parked in the
\* send on a full channel and holds the read lock, a call to a new
\* destination waits for the write lock and holds pingsMu, and the call
\* that could empty the channel waits for the read lock behind the writer.
C24_NoLockCycle ==
    ~(/\ rpc = "send" /\ ~CanSend(responses[rmsg.ID])
      /\ \E p, q \in Procs :
            /\ pc[p] = "wlock" /\ pingsMu = p
            /\ pc[q] = "rlock" /\ echo[q].ID = rmsg.ID)

\* The reader is parked in the send on a full channel while no Ping call
\* is in flight and Close has not been called: a state Close is called in.
ReaderParkedAlone ==
    /\ rpc = "send" /\ ~CanSend(responses[rmsg.ID])
    /\ closePc = "idle"
    /\ \A p \in Procs : pc[p] \in {"idle", "done"}

\* C25: Close returns, whatever state the engine is in when it is
\* called: once the cancellation is signalled the reader terminates.
C25_CloseReturns ==
    (closePc = "wait") ~> (closePc = "done")

\* The destination's echo state is being created: the call that stored it
\* is still inside echo(), before the registration, and holds pingsMu.
InEcho(d) == \E p \in Procs : pc[p] = "wlock" /\ dst[p] = d /\ pingsMu = p

\* Every request handed to WriteTo carries an identifier that has a
\* channel.
RegisteredBeforeSent ==
    /\ \A m \in reqs : responses[m.ID].open
    /\ \A p \in Procs : \A i \in 1..Len(sentBy[p]) : responses[sentBy[p][i].ID].open

\* A step keeps every registered channel: the key stays and the channel is
\* the one that was made first.
ChannelsKept ==
    \A i \in IDs : responses[i].open =>
        responses'[i].open /\ responses'[i].by = responses[i].by

\* A step of the reader changes no key of the registry and no channel.
ReaderOnlyLooksUp ==
    rpc' # rpc =>
        \A i \in IDs : /\ responses'[i].open = responses[i].open
                       /\ responses'[i].by = responses[i].by

\* C26 as claimed: in every reachable state every destination with echo
\* state has a channel registered under its identifier, registered before
\* the first request is sent; a channel is never removed or replaced; the
\* reader never inserts, removes or replaces one.
C26_Registry ==
    /\ [](\A d \in Known : responses[pings[d].ID].open)
    /\ []RegisteredBeforeSent
    /\ [][ChannelsKept /\ ReaderOnlyLooksUp]_vars

\* C26 as amended: the same, except that a destination's state is without
\* its channel while the call that creates it is still inside echo().
C26_RegistryOutsideEcho ==
    /\ [](\A d \in Known : ~InEcho(d) => responses[pings[d].ID].open)
    /\ []RegisteredBeforeSent
    /\ [][ChannelsKept /\ ReaderOnlyLooksUp]_vars

\* Two destinations share one channel, made by the first call, which holds
\* a reply the reader delivered; both calls have sent.
C26_Witness ==
    \E p, q \in Procs :
        /\ p # q /\ pc[p] # "idle" /\ pc[q] # "idle" /\ dst[p] # dst[q]
        /\ pings[dst[p]].ID = pings[dst[q]].ID
        /\ sentBy[p] # <<>> /\ sentBy[q] # <<>>
        /\ responses[pings[dst[p]].ID].by = p
        /\ responses[pings[dst[p]].ID].buf # <<>>

\* C27: the identifiers of the destinations' echo states are pairwise
\* different, so that no two destinations share a reply channel.
C27_UniqueIdentifiers ==
    \A d, e \in Known : d # e => pings[d].ID # pings[e].ID

\* The reader's receive failed, and not by the engine's cancellation.
ReaderFailed == rpc \in {"err", "done"} /\ rerr = "readErr"

\* After the failure the reader stays stopped and puts nothing into any
\* channel: what a call takes afterwards was buffered before.
StoppedForGood ==
    ReaderFailed =>
        /\ rpc' \in {"err", "done"} /\ rerr' = rerr
        /\ \A i \in IDs : Len(responses'[i].buf) <= Len(responses[i].buf)

\* A call that returns after the failure returns a reply buffered before
\* it, its own cancellation or an error of its own send.
ReturnsOwnResult ==
    \A p \in Procs :
        ReaderFailed /\ pc[p] # "done" /\ pc'[p] = "done" =>
            \/ result'[p].kind = "response" /\ responses[echo[p].ID].buf # <<>>
            \/ result'[p].kind = "canceled" /\ ctxDone[p]
            \/ result'[p].kind \in {"sendErr", "randErr"}

\* No call has returned an error of the reader.
NoCallSeesReadError ==
    \A p \in Procs : result[p].kind \notin {"readErr", "nil"}

SendFailed(p) ==
    /\ Returned(p) /\ result[p].kind \in {"sendErr", "canceled"}
    /\ HasEcho(p) /\ Len(sentBy[p]) = timeouts[p]

\* What is left of a failed send: the call does not hold the read lock, the
\* hook did not fire for the attempt, its sequence number is taken (no
\* other call got it, the counter is at or past it) and the destination's
\* state and channel are in place.
FailedSendKept(p) ==
    /\ p \notin resMu.readers
    /\ Len(retries[p]) = timeouts[p]
    /\ echo[p].Seq \notin SeqsSentBy(p)
    /\ pings[dst[p]].Seq >= echo[p].Seq
    /\ pings[dst[p]].ID = echo[p].ID /\ pings[dst[p]].Data = echo[p].Data
    /\ responses[echo[p].ID].open
    /\ \A q \in CallsTo(dst[p]) \ {p} : echo[p].Seq \notin SeqsTakenBy(q)

\* A call leaves WriteTo by having sent (and then goes on to wait) or by
\* returning the error at once; a call makes another attempt only after
\* its retry timer fired.
ReturnsAtOnce ==
    \A p \in Procs :
        /\ pc[p] = "write" /\ pc'[p] # "write" =>
             \/ pc'[p] = "rlock" /\ Len(sentBy'[p]) = Len(sentBy[p]) + 1
             \/ /\ pc'[p] = "done" /\ sentBy'[p] = sentBy[p]
                /\ result'[p].kind \in {"sendErr", "canceled"}
        /\ pc[p] \notin {"idle", "echo"} /\ pc'[p] = "echo" =>
             pc[p] = "wait" /\ timeouts'[p] = timeouts[p] + 1

\* Nothing is rolled back: no counter decreases and no state is removed.
NoRollback ==
    \A d \in Dsts : pings'[d].Seq >= pings[d].Seq

\* C29: a failed WriteTo makes Ping return the error at once, without a
\* wait and without another attempt (only the retry timer leads to one);
\* the sequence number the failed attempt took, and a new destination's
\* state and channel, stay as they are.
C29_SendErrorReturned ==
    /\ [](\A p \in Procs : SendFailed(p) => FailedSendKept(p))
    /\ [][ReturnsAtOnce /\ NoRollback]_vars

\* The first send to a new destination failed; a later call to that
\* destination sent the next sequence number.
C29_Witness ==
    \E p, q \in Procs :
        /\ SendFailed(p) /\ result[p].kind = "sendErr" /\ sentBy[p] = <<>>
        /\ echo[p].Seq = 1
        /\ q # p /\ pc[q] # "idle" /\ dst[q] = dst[p] /\ 2 \in SeqsSentBy(q)

\* Call p has sent nothing by the time the transport is closed: the calls
\* made after Close, and the calls Close overtook before their first send.
UnsentAtClose(p) == connClosed /\ pc[p] # "idle" /\ sentBy[p] = <<>>

Declared(d) == (d.b[1] % 16) * 4

ReadReturned(r) == rdpc[r] = "done"

\* A call takes one datagram from the socket and no second one; it takes
\* none only when Recvfrom itself failed.
OneDatagram ==
    \A r \in Readers :
        /\ taken[r] <= 1
        /\ ReadReturned(r) => (taken[r] = 0 <=> rdRet[r] = ReadErr("recvErr"))

\* Between Lock and Unlock a call is alone with the buffer.
Exclusive ==
    \A r \in Readers :
        rdpc[r] \in {"locked", "received"} =>
            /\ rmu = r
            /\ \A q \in Readers \ {r} : rdpc[q] \in {"idle", "done"}
            /\ rdpc[r] = "received" => SubSeq(rbuf, 1, rn[r]) = SubSeq(got[r].b, 1, rn[r])

\* A returned message is made of the received bytes behind the declared
\* header length, and comes with the address of the datagram's peer.
ParsedFromSlice ==
    \A r \in Readers :
        ReadReturned(r) /\ rdRet[r].kind = "msg" =>
            /\ rdRet[r].m = SubSeq(got[r].b, Declared(got[r]) + 1, rn[r])
            /\ rdRet[r].ip = fromSockaddr(got[r].sa)

\* The call received fewer bytes than the header length they declare.
ShortOfHeader(r) == taken[r] = 1 /\ rn[r] < Declared(got[r])

\* C31: every ReadFrom call receives one datagram and returns the parsed
\* message with the peer's address or an error; calls on one transport
\* exclude each other over the receive buffer; on IPv4 the message is
\* parsed from the bytes between the header length and the received
\* length n, and a datagram whose received length is smaller than the
\* header length it declares yields an error.
C31_ReadFrom ==
    /\ OneDatagram
    /\ Exclusive
    /\ ParsedFromSlice
    /\ \A r \in Readers :
        ReadReturned(r) =>
            /\ rdRet[r].kind \in {"msg", "err"}
            /\ ShortOfHeader(r) => rdRet[r].kind = "err"

\* C31 without its last part holds for every datagram that is not shorter
\* than its header: the panic is the only way to leave ReadFrom without
\* a message or an error.
C31_ReadFromUnlessShort ==
    /\ OneDatagram
    /\ Exclusive
    /\ ParsedFromSlice
    /\ \A r \in Readers :
        ReadReturned(r) =>
            /\ rdRet[r].kind = "panic" <=> (ShortOfHeader(r) /\ Declared(got[r]) <= mtu)
            /\ ShortOfHeader(r) /\ Declared(got[r]) > mtu => rdRet[r] = ReadErr("extHeaderTooShort")

\* A call has received 20 bytes that declare a header of 24 into a buffer
\* of 32, and has left ReadFrom.
C31_Witness ==
    \E r \in Readers : ReadReturned(r) /\ ShortOfHeader(r) /\ Declared(got[r]) <= mtu

(* ------------------- C32: the 16-bit sequence number ------------------ *)

\* The value the sequence field of call p's current request has on the wire.
OnWire(p) == Request(dst[p], echo[p]).Seq

\* C32: the sequence number of every echo request fits the 16-bit field
\* of the message: the counter of a destination never exceeds 65535,
\* whatever the number of attempts, and what a call records as its
\* request's number is the number the request carries on the wire.
C32_SeqFitsField ==
    /\ \A d \in Dsts : pings[d].Seq <= MaxUint16
    /\ \A p \in Procs : pc[p] \notin {"idle", "echo"} => OnWire(p) = echo[p].Seq
    /\ \A p \in Procs : GotResponse(p) => result[p].Ping.Seq <= MaxUint16

\* A call has returned the reply to its own request, which is the only
\* request with that number on the wire, and the reply's sequence number
\* is not the one of Response.Ping.
C32_Witness ==
    \E p \in Procs :
        /\ GotResponse(p)
        /\ result[p].Ping.Seq > MaxUint16
        /\ result[p].IP = dst[p]
        /\ result[p].Pong.ID = result[p].Ping.ID
        /\ result[p].Pong.Seq = Wire16(result[p].Ping.Seq)
        /\ result[p].Pong.Seq # result[p].Ping.Seq

====
